---- MODULE Spec2Model ----
(***************************************************************************)
(* A model of the NES emulator core: the per-cycle CPU state machine       *)
(* (src/src/cpu/mod.rs), the MMC3 and UxROM cartridge mappers              *)
(* (src/src/cartridge/mappers) and the iNES loader                         *)
(* (src/src/cartridge/mod.rs).                                             *)
(*                                                                         *)
(* Numbers are decimal; the source's hexadecimal value is given in the     *)
(* comment beside each one.  u8 arithmetic is modulo 256, u16 arithmetic   *)
(* modulo 65536.  An arithmetic overflow that the source does not wrap     *)
(* explicitly aborts in a build with overflow checks and wraps in a build  *)
(* without them: both outcomes are modelled.                               *)
(***************************************************************************)
EXTENDS Integers, Sequences, FiniteSets, TLC

VARIABLES
    state,          \* Cpu.state: the CpuState variant (a record with a tag)
    registers,      \* Cpu.registers
    cycles,         \* Cpu.cycles
    mem,            \* CPU RAM cells written so far (offset in 0..2047 -> byte)
    bus,            \* history: the MMU transactions of the last call of next()
    prev,           \* history: Cpu.state before the last call of next()
    operand,        \* history: the operand last handed to Opcode::execute
    fetched,        \* history: the number of opcodes fetched so far
    dots,           \* the PPU dots advanced since construction
    nmi_pending,    \* the PPU has raised an NMI edge that was not yet taken
    twin,           \* a second copy of the CPU and mapper (SpecTwin)
    itrace,         \* history: the bus transactions of each call of next()
                    \* made for the current instruction, the fetch first
    cur_opcode,     \* history: the opcode of the current instruction
    fetch_regs,     \* history: the registers when its opcode was fetched
    executed,       \* history: the last call handed the operand to execute
    call,           \* history: PC, S and target when the last JSR began to push
    image,          \* the byte stream handed to from_file
    loaded,         \* what from_file / CartridgeHeader::new made of it
    cart,           \* the mapper: its CPU-bus chip and its PPU-bus chip
    access,         \* history: the last cartridge bus operation and its outcome
    shadow,         \* history: the byte last written to each PRG-RAM address
    writes,         \* history: the number of CPU writes made to the cartridge
    bank_data_7,    \* history: the value last written to MMC3 bank register 7
    host            \* the host loop: SDL event queue, buttons, how it ended

cpuVars == <<state, registers, cycles, mem, bus, prev, operand, fetched,
             dots, nmi_pending, twin, itrace, cur_opcode, fetch_regs, executed,
             call>>

loadVars == <<image, loaded>>

cartVars == <<cart, access, shadow, writes, bank_data_7>>

hostVars == <<host>>

vars == <<state, registers, cycles, mem, bus, prev, operand, fetched,
          dots, nmi_pending, twin, itrace, cur_opcode, fetch_regs, executed,
          call, image, loaded, cart, access, shadow, writes, bank_data_7,
          host>>

----------------------------------------------------------------------------
(* Bounds of the model *)

\* Number of calls of Cpu::next explored from the initial state.
MaxCycles == 8

\* Number of instructions started from the initial state.
MaxInstructions == 2

\* Option::None for the Option<u8> / Option<u16> fields of CpuState.
None == -1

\* Bytes a read of untracked memory (ROM, ports, unwritten RAM) may return.
ByteSamples == {0, 255}

----------------------------------------------------------------------------
(* Fixed-width arithmetic *)

WrapU8(n) == n % 256

WrapU16(n) == n % 65536

\* low_byte as u16 | ((high_byte as u16) << 8)
Word(lo, hi) == lo + 256 * hi

\* (operand as i8) as u16: sign extension of a byte to 16 bits
SignExtend(b) == IF b >= 128 THEN b + 65280 ELSE b

RECURSIVE BitAndN(_, _, _)
BitAndN(a, b, n) ==
    IF n = 0 THEN 0
    ELSE (a % 2) * (b % 2) + 2 * BitAndN(a \div 2, b \div 2, n - 1)

RECURSIVE BitOrN(_, _, _)
BitOrN(a, b, n) ==
    IF n = 0 THEN 0
    ELSE (IF a % 2 = 1 \/ b % 2 = 1 THEN 1 ELSE 0)
         + 2 * BitOrN(a \div 2, b \div 2, n - 1)

\* a & b and a | b on u8
BitAnd(a, b) == BitAndN(a, b, 8)

BitOr(a, b) == BitOrN(a, b, 8)

\* a >> n on an unsigned value
Shr(a, n) == a \div (2 ^ n)

----------------------------------------------------------------------------
(* Status flags (StatusFlags): masks of the processor status byte *)

CARRY_FLAG == 1

ZERO_FLAG == 2

OVERFLOW_FLAG == 64

NEGATIVE_FLAG == 128

\* StatusFlags::contains
Contains(p, flag) == BitAnd(p, flag) = flag

\* StatusFlags::set
SetFlag(p, flag, on) == IF on THEN BitOr(p, flag) ELSE BitAnd(p, 255 - flag)

\* Cpu::set_negative_zero_flags
set_negative_zero_flags(r, v) ==
    [r EXCEPT !.status_register =
        SetFlag(SetFlag(@, ZERO_FLAG, v = 0), NEGATIVE_FLAG, BitAnd(v, 128) # 0)]

----------------------------------------------------------------------------
(* The CpuState variants *)

FetchOpcodeState == [tag |-> "FetchOpcode"]

ThrowawayReadState(op, opnd) ==
    [tag |-> "ThrowawayRead", opcode |-> op, operand |-> opnd]

ReadingOperand(op, lo, hi, ptr, ilo, ihi, chk) ==
    [tag |-> "ReadingOperand", opcode |-> op,
     address_low_byte |-> lo, address_high_byte |-> hi, pointer |-> ptr,
     indirect_address_low_byte |-> ilo, indirect_address_high_byte |-> ihi,
     checked_page_boundary |-> chk]

BranchCrossesPageBoundaryState(op, addr, opnd) ==
    [tag |-> "BranchCrossesPageBoundary", opcode |-> op,
     address |-> addr, operand |-> opnd]

PushRegisterOnStackState(v) == [tag |-> "PushRegisterOnStack", value |-> v]

PreIncrementStackPointerState(o) ==
    [tag |-> "PreIncrementStackPointer", operation |-> o]

PullRegisterFromStackState(o) ==
    [tag |-> "PullRegisterFromStack", operation |-> o]

PullPCLFromStackState(o) == [tag |-> "PullPCLFromStack", operation |-> o]

PullPCHFromStackState(o, l) ==
    [tag |-> "PullPCHFromStack", operation |-> o, pcl |-> l]

IncrementProgramCounterState == [tag |-> "IncrementProgramCounter"]

WritePCHToStackState(addr) == [tag |-> "WritePCHToStack", address |-> addr]

WritePCLToStackState(addr) == [tag |-> "WritePCLToStack", address |-> addr]

SetProgramCounterState(addr) == [tag |-> "SetProgramCounter", address |-> addr]

WritingResultState(addr, v, d) ==
    [tag |-> "WritingResult", address |-> addr, value |-> v, dummy |-> d]

\* The process after a panic!() or an overflow abort: no CpuState at all.
Panicked == [tag |-> "Panicked"]

----------------------------------------------------------------------------
(* The opcode table (cpu/opcodes.rs): the opcodes the model executes, one   *)
(* or more for every pair of addressing mode and instruction type.          *)

OPCODE_TABLE ==
    [c \in {169, 165, 181, 182, 173, 189, 185, 161, 177,
            133, 149, 150, 141, 157, 153, 129, 145,
            230, 246, 238, 254, 10,
            76, 108, 32, 96, 64, 72, 8, 104, 40,
            208, 240, 234, 232} |->
        CASE c = 169 -> [operation |-> "LDA", address_mode |-> "Immediate"]         \* A9
          [] c = 165 -> [operation |-> "LDA", address_mode |-> "ZeroPage"]          \* A5
          [] c = 181 -> [operation |-> "LDA", address_mode |-> "ZeroPageXIndexed"]  \* B5
          [] c = 182 -> [operation |-> "LDX", address_mode |-> "ZeroPageYIndexed"]  \* B6
          [] c = 173 -> [operation |-> "LDA", address_mode |-> "Absolute"]          \* AD
          [] c = 189 -> [operation |-> "LDA", address_mode |-> "AbsoluteXIndexed"]  \* BD
          [] c = 185 -> [operation |-> "LDA", address_mode |-> "AbsoluteYIndexed"]  \* B9
          [] c = 161 -> [operation |-> "LDA", address_mode |-> "IndirectXIndexed"]  \* A1
          [] c = 177 -> [operation |-> "LDA", address_mode |-> "IndirectYIndexed"]  \* B1
          [] c = 133 -> [operation |-> "STA", address_mode |-> "ZeroPage"]          \* 85
          [] c = 149 -> [operation |-> "STA", address_mode |-> "ZeroPageXIndexed"]  \* 95
          [] c = 150 -> [operation |-> "STX", address_mode |-> "ZeroPageYIndexed"]  \* 96
          [] c = 141 -> [operation |-> "STA", address_mode |-> "Absolute"]          \* 8D
          [] c = 157 -> [operation |-> "STA", address_mode |-> "AbsoluteXIndexed"]  \* 9D
          [] c = 153 -> [operation |-> "STA", address_mode |-> "AbsoluteYIndexed"]  \* 99
          [] c = 129 -> [operation |-> "STA", address_mode |-> "IndirectXIndexed"]  \* 81
          [] c = 145 -> [operation |-> "STA", address_mode |-> "IndirectYIndexed"]  \* 91
          [] c = 230 -> [operation |-> "INC", address_mode |-> "ZeroPage"]          \* E6
          [] c = 246 -> [operation |-> "INC", address_mode |-> "ZeroPageXIndexed"]  \* F6
          [] c = 238 -> [operation |-> "INC", address_mode |-> "Absolute"]          \* EE
          [] c = 254 -> [operation |-> "INC", address_mode |-> "AbsoluteXIndexed"]  \* FE
          [] c = 10  -> [operation |-> "ASL", address_mode |-> "Accumulator"]       \* 0A
          [] c = 76  -> [operation |-> "JMP", address_mode |-> "Absolute"]          \* 4C
          [] c = 108 -> [operation |-> "JMP", address_mode |-> "Indirect"]          \* 6C
          [] c = 32  -> [operation |-> "JSR", address_mode |-> "Absolute"]          \* 20
          [] c = 96  -> [operation |-> "RTS", address_mode |-> "Implied"]           \* 60
          [] c = 64  -> [operation |-> "RTI", address_mode |-> "Implied"]           \* 40
          [] c = 72  -> [operation |-> "PHA", address_mode |-> "Implied"]           \* 48
          [] c = 8   -> [operation |-> "PHP", address_mode |-> "Implied"]           \* 08
          [] c = 104 -> [operation |-> "PLA", address_mode |-> "Implied"]           \* 68
          [] c = 40  -> [operation |-> "PLP", address_mode |-> "Implied"]           \* 28
          [] c = 208 -> [operation |-> "BNE", address_mode |-> "Relative"]          \* D0
          [] c = 240 -> [operation |-> "BEQ", address_mode |-> "Relative"]          \* F0
          [] c = 234 -> [operation |-> "NOP", address_mode |-> "Implied"]           \* EA
          [] c = 232 -> [operation |-> "INX", address_mode |-> "Implied"]]          \* E8

\* Operation::instruction_type
instruction_type(operation) ==
    CASE operation \in {"LDA", "LDX"} -> "Read"
      [] operation \in {"STA", "STX"} -> "Write"
      [] operation \in {"INC", "ASL"} -> "ReadModifyWrite"
      [] operation \in {"JMP", "JSR"} -> "Jump"
      [] operation \in {"BNE", "BEQ"} -> "Branch"
      [] operation \in {"PHA", "PHP", "PLA", "PLP", "RTS", "RTI"} -> "Stack"
      [] OTHER -> "Implied"

OperationOf(op) == OPCODE_TABLE[op].operation

ModeOf(op) == OPCODE_TABLE[op].address_mode

TypeOf(op) == instruction_type(OperationOf(op))

\* Opcode::execute: the effect of the instruction once its operand and
\* effective address are known.  It makes no bus access itself: a store and
\* the modified byte of a read-modify-write leave through WritingResult.
execute(op, opnd, address, r) ==
    LET o == OperationOf(op) IN
    CASE o = "LDA" ->
            [state |-> FetchOpcodeState,
             registers |-> set_negative_zero_flags([r EXCEPT !.a = opnd], opnd)]
      [] o = "LDX" ->
            [state |-> FetchOpcodeState,
             registers |-> set_negative_zero_flags([r EXCEPT !.x = opnd], opnd)]
      [] o = "STA" ->
            [state |-> WritingResultState(address, r.a, FALSE), registers |-> r]
      [] o = "STX" ->
            [state |-> WritingResultState(address, r.x, FALSE), registers |-> r]
      [] o = "INC" ->
            [state |-> WritingResultState(address, WrapU8(opnd + 1), TRUE),
             registers |-> set_negative_zero_flags(r, WrapU8(opnd + 1))]
      [] o = "ASL" ->
            LET v == WrapU8(opnd * 2)
                r1 == set_negative_zero_flags(
                        [r EXCEPT !.status_register =
                            SetFlag(@, CARRY_FLAG, opnd >= 128)], v)
            IN  IF address = None
                THEN [state |-> FetchOpcodeState, registers |-> [r1 EXCEPT !.a = v]]
                ELSE [state |-> WritingResultState(address, v, TRUE), registers |-> r1]
      [] o = "JMP" ->
            [state |-> FetchOpcodeState,
             registers |-> [r EXCEPT !.program_counter = address]]
      [] o = "JSR" ->
            [state |-> WritePCHToStackState(address), registers |-> r]
      [] o \in {"RTS", "RTI", "PLA", "PLP"} ->
            [state |-> PreIncrementStackPointerState(o), registers |-> r]
      [] o = "PHA" ->
            [state |-> PushRegisterOnStackState(r.a), registers |-> r]
      [] o = "PHP" ->
            [state |-> PushRegisterOnStackState(BitOr(r.status_register, 48)),
             registers |-> r]
      [] o \in {"BNE", "BEQ"} ->
            [state |-> SetProgramCounterState(address), registers |-> r]
      [] o = "INX" ->
            [state |-> FetchOpcodeState,
             registers |-> set_negative_zero_flags(
                             [r EXCEPT !.x = WrapU8(r.x + 1)], WrapU8(r.x + 1))]
      [] OTHER ->
            [state |-> FetchOpcodeState, registers |-> r]

----------------------------------------------------------------------------
(* The MMU as the CPU sees it: 2 KiB of RAM mirrored through $0000-$1FFF;    *)
(* every other address (ports, cartridge) is not tracked and a read of it   *)
(* may return any byte.                                                     *)

Rd(a) == [op |-> "read", address |-> a]

Wr(a, v) == [op |-> "write", address |-> a, value |-> v]

IsRam(a) == a < 8192                                          \* $2000

RamOffset(a) == a % 2048                                      \* $0800

\* The PPU dots the MMU advances the PPU by during the transactions b of one
\* call of next(): three per memory access, some before and some after it.
PpuDots(b) == 3 * Len(b)

\* Mmu::write_byte
MemWrite(m, a, v) ==
    IF IsRam(a)
    THEN [x \in DOMAIN m \cup {RamOffset(a)} |->
            IF x = RamOffset(a) THEN v ELSE m[x]]
    ELSE m

\* Mmu::read_byte: the bytes a read of address a may return
ReadSet(m, a) ==
    IF a = None THEN {0}
    ELSE IF IsRam(a) /\ RamOffset(a) \in DOMAIN m THEN {m[RamOffset(a)]}
    ELSE ByteSamples

\* The bytes an opcode fetch at address a may return, among the opcodes of
\* OPCODE_TABLE.
OpcodeSet(m, a) ==
    IF IsRam(a) /\ RamOffset(a) \in DOMAIN m
    THEN {m[RamOffset(a)]} \cap DOMAIN OPCODE_TABLE
    ELSE DOMAIN OPCODE_TABLE

----------------------------------------------------------------------------
(* The result of one call of Cpu::next: the new state and registers, the    *)
(* bus transactions made, the RAM, and the operand handed to execute.       *)

Res(s, r, b, m, o) ==
    [state |-> s, registers |-> r, bus |-> b, mem |-> m,
     executed |-> FALSE, operand |-> o]

\* opcode.execute(self, operand, address) after the bus transactions b
Exec(op, opnd, address, r, b, m) ==
    LET e == execute(op, opnd, address, r)
    IN  [state |-> e.state, registers |-> e.registers, bus |-> b, mem |-> m,
         executed |-> TRUE, operand |-> opnd]

\* a panic!() or an overflow abort after the bus transactions b
Abort(r, b, m) == Res(Panicked, r, b, m, None)

\* Cpu::read_and_inc_program_counter: `program_counter += 1` overflows at
\* $FFFF, which aborts when overflow checks are on (oc) and wraps otherwise.
PcOverflows(r, oc) == r.program_counter = 65535 /\ oc

IncPc(r) == [r EXCEPT !.program_counter = WrapU16(@ + 1)]

\* Cpu::push_to_stack
StackAddress(r) == BitOrN(r.stack_pointer, 256, 16)

\* a push that stops at S = $00 instead of wrapping to $FF
PushRegisters_saturating(r) ==
    [r EXCEPT !.stack_pointer = IF @ = 0 THEN 0 ELSE @ - 1]

PushRegisters(r) == [r EXCEPT !.stack_pointer = WrapU8(@ + 255)]

\* Cpu::pop_from_stack: the stack pointer after the pre-increment
PopRegisters(r) == [r EXCEPT !.stack_pointer = WrapU8(@ + 1)]

----------------------------------------------------------------------------
(* Cpu::next, CpuState::FetchOpcode.  v is the byte read at PC, oc whether  *)
(* overflow checks are on.  Logging at debug level is off, so the           *)
(* arguments of debug!() (nes_test_log and its two reads) are not           *)
(* evaluated.                                                               *)

FetchOpcodeResult(r, m, v, oc) ==
    LET pc == r.program_counter
        r1 == IncPc(r)
        b == <<Rd(pc)>>
        mode == ModeOf(v)
    IN  IF PcOverflows(r, oc) THEN Abort(r, <<Rd(pc)>>, m)
        ELSE IF mode = "Accumulator"
             THEN Res(ThrowawayReadState(v, r1.a), r1, b, m, None)
        ELSE IF mode = "Implied"
             THEN Res(ThrowawayReadState(v, None), r1, b, m, None)
        ELSE Res(ReadingOperand(v, None, None, None, None, None, FALSE),
                 r1, b, m, None)

\* an Absolute mode in which a Jump reads the byte at its target before it
\* is executed
next_absolute_mode_state_jump_reads(s, r, m, v, oc) ==
    LET op == s.opcode
        lo == s.address_low_byte
        hi == s.address_high_byte
        pc == r.program_counter
    IN  IF lo = None
        THEN IF PcOverflows(r, oc) THEN Abort(r, <<Rd(pc)>>, m)
             ELSE Res(ReadingOperand(op, v, hi, None, None, None, FALSE),
                      IncPc(r), <<Rd(pc)>>, m, None)
        ELSE IF hi = None
        THEN IF PcOverflows(r, oc) THEN Abort(r, <<Rd(pc)>>, m)
             ELSE IF TypeOf(op) \in {"Write"}
                  THEN Exec(op, None, Word(lo, v), IncPc(r), <<Rd(pc)>>, m)
                  ELSE Res(ReadingOperand(op, lo, v, None, None, None, FALSE),
                           IncPc(r), <<Rd(pc)>>, m, None)
        ELSE Exec(op, v, Word(lo, hi), r, <<Rd(Word(lo, hi))>>, m)

\* Cpu::next_absolute_mode_state
next_absolute_mode_state(s, r, m, v, oc) ==
    LET op == s.opcode
        lo == s.address_low_byte
        hi == s.address_high_byte
        pc == r.program_counter
    IN  IF lo = None
        THEN IF PcOverflows(r, oc) THEN Abort(r, <<Rd(pc)>>, m)
             ELSE Res(ReadingOperand(op, v, hi, None, None, None, FALSE),
                      IncPc(r), <<Rd(pc)>>, m, None)
        ELSE IF hi = None
        THEN IF PcOverflows(r, oc) THEN Abort(r, <<Rd(pc)>>, m)
             ELSE IF TypeOf(op) \in {"Jump", "Write"}
                  THEN Exec(op, None, Word(lo, v), IncPc(r), <<Rd(pc)>>, m)
                  ELSE Res(ReadingOperand(op, lo, v, None, None, None, FALSE),
                           IncPc(r), <<Rd(pc)>>, m, None)
        ELSE Exec(op, v, Word(lo, hi), r, <<Rd(Word(lo, hi))>>, m)

\* The address whose byte next_absolute_mode_state uses
AbsoluteReadAddress(s, r) ==
    IF s.address_low_byte = None \/ s.address_high_byte = None
    THEN r.program_counter
    ELSE Word(s.address_low_byte, s.address_high_byte)

\* Cpu::next_absolute_indexed_mode_state
next_absolute_indexed_mode_state(s, r, m, v, oc, index) ==
    LET op == s.opcode
        lo == s.address_low_byte
        hi == s.address_high_byte
        pc == r.program_counter
        unindexed_address == Word(lo, hi)
        correct_address == WrapU16(unindexed_address + index)
        first_read_address == Word(WrapU8(lo + index), hi)
        again == ReadingOperand(op, lo, hi, None, None, None, TRUE)
    IN  IF lo = None /\ hi = None
        THEN IF PcOverflows(r, oc) THEN Abort(r, <<Rd(pc)>>, m)
             ELSE Res(ReadingOperand(op, v, hi, None, None, None, FALSE),
                      IncPc(r), <<Rd(pc)>>, m, None)
        ELSE IF lo # None /\ hi = None
        THEN IF PcOverflows(r, oc) THEN Abort(r, <<Rd(pc)>>, m)
             ELSE Res(ReadingOperand(op, lo, v, None, None, None, FALSE),
                      IncPc(r), <<Rd(pc)>>, m, None)
        ELSE IF lo # None /\ hi # None
        THEN IF s.checked_page_boundary
             THEN Exec(op, v, correct_address, r, <<Rd(correct_address)>>, m)
             ELSE IF TypeOf(op) = "Read"
                  THEN IF correct_address = first_read_address
                       THEN Exec(op, v, correct_address, r,
                                 <<Rd(first_read_address), Rd(correct_address)>>, m)
                       ELSE Res(again, r, <<Rd(first_read_address)>>, m, None)
             ELSE IF TypeOf(op) = "ReadModifyWrite"
                  THEN Res(again, r, <<Rd(first_read_address)>>, m, None)
             ELSE Exec(op, v, correct_address, r,
                       <<Rd(first_read_address), Rd(correct_address)>>, m)
        ELSE Abort(r, <<>>, m)

\* The address whose byte next_absolute_indexed_mode_state uses
AbsoluteIndexedReadAddress(s, r, index) ==
    IF s.address_low_byte = None \/ s.address_high_byte = None
    THEN r.program_counter
    ELSE WrapU16(Word(s.address_low_byte, s.address_high_byte) + index)

\* Cpu::next, ReadingOperand, AddressingMode::Immediate
ImmediateResult(s, r, m, v, oc) ==
    LET pc == r.program_counter
        r1 == IncPc(r)
    IN  IF PcOverflows(r, oc) THEN Abort(r, <<Rd(pc)>>, m)
        ELSE Exec(s.opcode, v, WrapU16(r1.program_counter + 65535), r1,
                  <<Rd(pc)>>, m)

\* an Indirect mode without the 6502 page-wrap: the carry of the low byte
\* reaches the high byte of the indirect address
IndirectResult_carry(s, r, m, v, oc) ==
    LET op == s.opcode
        ilo == s.indirect_address_low_byte
        ihi == s.indirect_address_high_byte
        lo == s.address_low_byte
        pc == r.program_counter
    IN  IF ilo = None
        THEN IF PcOverflows(r, oc) THEN Abort(r, <<Rd(pc)>>, m)
             ELSE Res(ReadingOperand(op, None, None, None, v, None, FALSE),
                      IncPc(r), <<Rd(pc)>>, m, None)
        ELSE IF ihi = None
        THEN IF PcOverflows(r, oc) THEN Abort(r, <<Rd(pc)>>, m)
             ELSE Res(ReadingOperand(op, None, None, None, ilo, v, FALSE),
                      IncPc(r), <<Rd(pc)>>, m, None)
        ELSE IF lo = None
        THEN Res(ReadingOperand(op, v, None, None, ilo, ihi, FALSE),
                 r, <<Rd(Word(ilo, ihi))>>, m, None)
        ELSE Exec(op, None, Word(lo, v), r,
                  <<Rd(WrapU16(Word(ilo, ihi) + 1))>>, m)

\* Cpu::next, ReadingOperand, AddressingMode::Indirect
IndirectResult(s, r, m, v, oc) ==
    LET op == s.opcode
        ilo == s.indirect_address_low_byte
        ihi == s.indirect_address_high_byte
        lo == s.address_low_byte
        pc == r.program_counter
    IN  IF ilo = None
        THEN IF PcOverflows(r, oc) THEN Abort(r, <<Rd(pc)>>, m)
             ELSE Res(ReadingOperand(op, None, None, None, v, None, FALSE),
                      IncPc(r), <<Rd(pc)>>, m, None)
        ELSE IF ihi = None
        THEN IF PcOverflows(r, oc) THEN Abort(r, <<Rd(pc)>>, m)
             ELSE Res(ReadingOperand(op, None, None, None, ilo, v, FALSE),
                      IncPc(r), <<Rd(pc)>>, m, None)
        ELSE IF lo = None
        THEN Res(ReadingOperand(op, v, None, None, ilo, ihi, FALSE),
                 r, <<Rd(Word(ilo, ihi))>>, m, None)
        ELSE Exec(op, None, Word(lo, v), r,
                  <<Rd(Word(WrapU8(ilo + 1), ihi))>>, m)

IndirectReadAddress(s, r) ==
    IF s.indirect_address_low_byte = None \/ s.indirect_address_high_byte = None
    THEN r.program_counter
    ELSE IF s.address_low_byte = None
    THEN Word(s.indirect_address_low_byte, s.indirect_address_high_byte)
    ELSE Word(WrapU8(s.indirect_address_low_byte + 1), s.indirect_address_high_byte)

\* Cpu::next, ReadingOperand, AddressingMode::IndirectXIndexed
\* (v2 is the byte of the second read a Write instruction makes in cycle 4)
IndirectXResult(s, r, m, v, v2, oc) ==
    LET op == s.opcode
        ilo == s.indirect_address_low_byte
        ihi == s.indirect_address_high_byte
        ptr == s.pointer
        lo == s.address_low_byte
        hi == s.address_high_byte
        pc == r.program_counter
        high_pointer == WrapU8(WrapU8(ilo + r.x) + 1)
    IN  IF ilo = None
        THEN IF PcOverflows(r, oc) THEN Abort(r, <<Rd(pc)>>, m)
             ELSE Res(ReadingOperand(op, lo, hi, None, v, ihi, FALSE),
                      IncPc(r), <<Rd(pc)>>, m, None)
        ELSE IF ptr = None
        THEN Res(ReadingOperand(op, lo, hi, ilo, ilo, ihi, FALSE),
                 r, <<>>, m, None)
        ELSE IF lo = None
        THEN Res(ReadingOperand(op, v, hi, ptr, ilo, ihi, FALSE),
                 r, <<Rd(WrapU8(ilo + r.x))>>, m, None)
        ELSE IF hi = None
        THEN IF TypeOf(op) = "Write"
             THEN Exec(op, v2, Word(lo, v), r,
                       <<Rd(high_pointer), Rd(Word(lo, v))>>, m)
             ELSE Res(ReadingOperand(op, lo, v, ptr, ilo, high_pointer, FALSE),
                      r, <<Rd(high_pointer)>>, m, None)
        ELSE Exec(op, v, Word(lo, hi), r, <<Rd(Word(lo, hi))>>, m)

\* The address of the first read of IndirectXResult (None when the cycle
\* makes no read) and of the second read of a Write instruction in cycle 4
IndirectXReadAddress(s, r) ==
    IF s.indirect_address_low_byte = None THEN r.program_counter
    ELSE IF s.pointer = None THEN None
    ELSE IF s.address_low_byte = None
    THEN WrapU8(s.indirect_address_low_byte + r.x)
    ELSE IF s.address_high_byte = None
    THEN WrapU8(WrapU8(s.indirect_address_low_byte + r.x) + 1)
    ELSE Word(s.address_low_byte, s.address_high_byte)

IndirectXSecondAddress(s, v) ==
    IF /\ s.indirect_address_low_byte # None /\ s.pointer # None
       /\ s.address_low_byte # None /\ s.address_high_byte = None
       /\ TypeOf(s.opcode) = "Write"
    THEN Word(s.address_low_byte, v)
    ELSE None

\* Cpu::next, ReadingOperand, AddressingMode::IndirectYIndexed
IndirectYResult(s, r, m, v, oc) ==
    LET op == s.opcode
        ilo == s.indirect_address_low_byte
        ihi == s.indirect_address_high_byte
        lo == s.address_low_byte
        hi == s.address_high_byte
        pc == r.program_counter
        unindexed_address == Word(lo, hi)
        address == WrapU16(unindexed_address + r.y)
    IN  IF ilo = None
        THEN IF PcOverflows(r, oc) THEN Abort(r, <<Rd(pc)>>, m)
             ELSE Res(ReadingOperand(op, lo, hi, None, v, ihi, FALSE),
                      IncPc(r), <<Rd(pc)>>, m, None)
        ELSE IF lo = None
        THEN Res(ReadingOperand(op, v, hi, None, ilo, ihi, FALSE),
                 r, <<Rd(ilo)>>, m, None)
        ELSE IF hi = None
        THEN Res(ReadingOperand(op, lo, v, ilo, ilo, ihi, FALSE),
                 r, <<Rd(WrapU8(ilo + 1))>>, m, None)
        ELSE IF s.checked_page_boundary
                \/ Shr(unindexed_address, 4) = Shr(address, 4)
        THEN Exec(op, v, address, r, <<Rd(address)>>, m)
        ELSE Res(ReadingOperand(op, lo, hi, None, ilo, ihi, TRUE),
                 r, <<>>, m, None)

IndirectYReadAddress(s, r) ==
    IF s.indirect_address_low_byte = None THEN r.program_counter
    ELSE IF s.address_low_byte = None THEN s.indirect_address_low_byte
    ELSE IF s.address_high_byte = None
    THEN WrapU8(s.indirect_address_low_byte + 1)
    ELSE IF s.checked_page_boundary
            \/ Shr(Word(s.address_low_byte, s.address_high_byte), 4)
               = Shr(WrapU16(Word(s.address_low_byte, s.address_high_byte)
                             + r.y), 4)
    THEN WrapU16(Word(s.address_low_byte, s.address_high_byte) + r.y)
    ELSE None

\* The branch condition of Cpu::next, AddressingMode::Relative
BranchTaken(operation, p) ==
    CASE operation = "BEQ" -> Contains(p, ZERO_FLAG)
      [] operation = "BNE" -> ~Contains(p, ZERO_FLAG)

\* a Relative mode that never takes the page-crossing cycle
RelativeResult_no_page_cycle(s, r, m, v, oc) ==
    LET op == s.opcode
        pc == r.program_counter
        r1 == IncPc(r)
        address == WrapU16(r1.program_counter + SignExtend(v))
    IN  IF PcOverflows(r, oc) THEN Abort(r, <<Rd(pc)>>, m)
        ELSE IF OperationOf(op) \notin {"BEQ", "BNE"} THEN Abort(r1, <<Rd(pc)>>, m)
        ELSE IF ~BranchTaken(OperationOf(op), r1.status_register)
        THEN Res(FetchOpcodeState, r1, <<Rd(pc)>>, m, None)
        ELSE IF Shr(address, 16) # Shr(r1.program_counter, 16)
        THEN Res(BranchCrossesPageBoundaryState(op, address, v),
                 r1, <<Rd(pc)>>, m, None)
        ELSE Exec(op, v, address, r1, <<Rd(pc)>>, m)

\* Cpu::next, ReadingOperand, AddressingMode::Relative
RelativeResult(s, r, m, v, oc) ==
    LET op == s.opcode
        pc == r.program_counter
        r1 == IncPc(r)
        address == WrapU16(r1.program_counter + SignExtend(v))
    IN  IF PcOverflows(r, oc) THEN Abort(r, <<Rd(pc)>>, m)
        ELSE IF OperationOf(op) \notin {"BEQ", "BNE"} THEN Abort(r1, <<Rd(pc)>>, m)
        ELSE IF ~BranchTaken(OperationOf(op), r1.status_register)
        THEN Res(FetchOpcodeState, r1, <<Rd(pc)>>, m, None)
        ELSE IF Shr(address, 8) # Shr(r1.program_counter, 8)
        THEN Res(BranchCrossesPageBoundaryState(op, address, v),
                 r1, <<Rd(pc)>>, m, None)
        ELSE Exec(op, v, address, r1, <<Rd(pc)>>, m)

\* Cpu::next, ReadingOperand, AddressingMode::ZeroPage
\* (v2 is the byte of the second read a Write instruction makes in cycle 2)
ZeroPageResult(s, r, m, v, v2, oc) ==
    LET op == s.opcode
        lo == s.address_low_byte
        pc == r.program_counter
    IN  IF lo = None
        THEN IF PcOverflows(r, oc) THEN Abort(r, <<Rd(pc)>>, m)
             ELSE IF TypeOf(op) = "Write"
                  THEN Exec(op, v2, v, IncPc(r), <<Rd(pc), Rd(v)>>, m)
                  ELSE Res(ReadingOperand(op, v, None, None, None, None, FALSE),
                           IncPc(r), <<Rd(pc)>>, m, None)
        ELSE Exec(op, v, lo, r, <<Rd(lo)>>, m)

ZeroPageReadAddress(s, r) ==
    IF s.address_low_byte = None THEN r.program_counter ELSE s.address_low_byte

ZeroPageSecondAddress(s, v) ==
    IF s.address_low_byte = None /\ TypeOf(s.opcode) = "Write" THEN v ELSE None

\* Cpu::next, ReadingOperand, AddressingMode::ZeroPageXIndexed and
\* ZeroPageYIndexed (index is X or Y)
ZeroPageIndexedResult(s, r, m, v, oc, index) ==
    LET op == s.opcode
        lo == s.address_low_byte
        hi == s.address_high_byte
        pc == r.program_counter
        address == WrapU8(lo + index)
    IN  IF lo = None
        THEN IF PcOverflows(r, oc) THEN Abort(r, <<Rd(pc)>>, m)
             ELSE Res(ReadingOperand(op, v, None, None, None, None, FALSE),
                      IncPc(r), <<Rd(pc)>>, m, None)
        ELSE IF hi = None
        THEN IF TypeOf(op) = "Write"
             THEN Exec(op, v, address, r, <<Rd(lo), Rd(address)>>, m)
             ELSE Res(ReadingOperand(op, lo, 0, None, None, None, FALSE),
                      r, <<Rd(lo)>>, m, None)
        ELSE Exec(op, v, address, r, <<Rd(address)>>, m)

ZeroPageIndexedReadAddress(s, r, index) ==
    IF s.address_low_byte = None THEN r.program_counter
    ELSE IF s.address_high_byte = None /\ TypeOf(s.opcode) # "Write"
    THEN s.address_low_byte
    ELSE WrapU8(s.address_low_byte + index)

----------------------------------------------------------------------------
(* Cpu::next, the states after the operand *)

\* CpuState::ThrowawayRead
ThrowawayReadResult(s, r, m) == Exec(s.opcode, s.operand, None, r, <<>>, m)

\* CpuState::PushRegisterOnStack
PushRegisterOnStackResult(s, r, m) ==
    Res(FetchOpcodeState, PushRegisters(r),
        <<Wr(StackAddress(r), s.value)>>,
        MemWrite(m, StackAddress(r), s.value), None)

\* CpuState::PreIncrementStackPointer
PreIncrementStackPointerResult(s, r, m) ==
    IF s.operation \in {"PLA", "PLP", "RTI"}
    THEN Res(PullRegisterFromStackState(s.operation), r, <<>>, m, None)
    ELSE IF s.operation = "RTS"
    THEN Res(PullPCLFromStackState(s.operation), r, <<>>, m, None)
    ELSE Abort(r, <<>>, m)

\* StatusFlags::from_bits_truncate(value & 0b1100_1111)
PulledStatus_keeps_b(v) == BitAnd(v, 223)

PulledStatus(v) == BitAnd(v, 207)

\* CpuState::PullRegisterFromStack (v is the byte popped)
PullRegisterFromStackResult(s, r, m, v) ==
    LET r1 == PopRegisters(r)
        b == <<Rd(StackAddress(r1))>>
    IN  IF s.operation = "PLA"
        THEN Res(FetchOpcodeState,
                 set_negative_zero_flags([r1 EXCEPT !.a = v], v), b, m, None)
        ELSE IF s.operation = "PLP"
        THEN Res(FetchOpcodeState,
                 [r1 EXCEPT !.status_register = PulledStatus(v)], b, m, None)
        ELSE IF s.operation = "RTI"
        THEN Res(PullPCLFromStackState(s.operation),
                 [r1 EXCEPT !.status_register = PulledStatus(v)], b, m, None)
        ELSE Abort(r, <<>>, m)

\* CpuState::PullPCLFromStack
PullPCLFromStackResult(s, r, m, v) ==
    LET r1 == PopRegisters(r)
    IN  Res(PullPCHFromStackState(s.operation, v), r1,
            <<Rd(StackAddress(r1))>>, m, None)

\* CpuState::PullPCHFromStack
PullPCHFromStackResult(s, r, m, v) ==
    LET r1 == PopRegisters(r)
        r2 == [r1 EXCEPT !.program_counter = BitOrN(v * 256, s.pcl, 16)]
        b == <<Rd(StackAddress(r1))>>
    IN  IF s.operation = "RTS"
        THEN Res(IncrementProgramCounterState, r2, b, m, None)
        ELSE IF s.operation = "RTI"
        THEN Res(FetchOpcodeState, r2, b, m, None)
        ELSE Abort(r2, b, m)

\* a return that leaves PC at the pulled address
IncrementProgramCounterResult_none(r, m) ==
    Res(FetchOpcodeState, r, <<>>, m, None)

\* CpuState::IncrementProgramCounter
IncrementProgramCounterResult(r, m) ==
    Res(FetchOpcodeState, IncPc(r), <<>>, m, None)

\* CpuState::WritePCHToStack
WritePCHToStackResult(s, r, m) ==
    LET v == Shr(WrapU16(r.program_counter + 65535), 8)
    IN  Res(WritePCLToStackState(s.address), PushRegisters(r),
            <<Wr(StackAddress(r), v)>>, MemWrite(m, StackAddress(r), v), None)

\* CpuState::WritePCLToStack
WritePCLToStackResult(s, r, m) ==
    LET v == WrapU16(r.program_counter + 65535) % 256
    IN  Res(SetProgramCounterState(s.address), PushRegisters(r),
            <<Wr(StackAddress(r), v)>>, MemWrite(m, StackAddress(r), v), None)

\* CpuState::SetProgramCounter
SetProgramCounterResult(s, r, m) ==
    Res(FetchOpcodeState, [r EXCEPT !.program_counter = s.address],
        <<>>, m, None)

\* CpuState::BranchCrossesPageBoundary
BranchCrossesPageBoundaryResult(s, r, m) ==
    Exec(s.opcode, s.operand, s.address, r, <<>>, m)

\* CpuState::WritingResult
WritingResultResult(s, r, m) ==
    IF s.dummy
    THEN Res(WritingResultState(s.address, s.value, FALSE), r, <<>>, m, None)
    ELSE Res(FetchOpcodeState, r, <<Wr(s.address, s.value)>>,
             MemWrite(m, s.address, s.value), None)

----------------------------------------------------------------------------
(* The iNES loader (cartridge/mod.rs).  A byte stream is described by what  *)
(* from_file looks at: whether it could be read, its length, whether its    *)
(* first four bytes are the iNES magic, and header bytes 4 to 7.            *)

Image(io, len, magic, prg, chr, f6, f7) ==
    [io_ok |-> io, len |-> len, magic_ok |-> magic,
     prg_units |-> prg, chr_units |-> chr, flags_6 |-> f6, flags_7 |-> f7]

NoImage == Image(TRUE, 0, TRUE, 0, 0, 0, 0)

NotLoaded == [kind |-> "None"]

\* Err(CartridgeError { message })
Err(message) == [kind |-> "Err", message |-> message]

\* a panic while loading: unwrap() of None, an index out of range, an
\* arithmetic overflow with overflow checks on, a failed debug_assert!
LoadAbort(reason) == [kind |-> "Abort", reason |-> reason]

\* CartridgeHeader::new with the mirroring match taking bit 0 before bit 3
CartridgeHeader_new_bit0_first(prg_rom_16kb_units, chr_rom_8kb_units, flags_6, flags_7) ==
    [prg_rom_16kb_units |-> prg_rom_16kb_units,
     chr_rom_8kb_units |-> chr_rom_8kb_units,
     mapper |-> BitOr(Shr(flags_6, 4), BitAnd(flags_7, 240)),
     mirroring |->
        IF BitAnd(flags_6, 1) # 0 THEN "Vertical"
        ELSE IF BitAnd(flags_6, 8) = 0 THEN "Horizontal" ELSE "FourScreen",
     has_ram |-> BitAnd(flags_6, 2) = 2]

\* CartridgeHeader::new
CartridgeHeader_new(prg_rom_16kb_units, chr_rom_8kb_units, flags_6, flags_7) ==
    [prg_rom_16kb_units |-> prg_rom_16kb_units,
     chr_rom_8kb_units |-> chr_rom_8kb_units,
     mapper |-> BitOr(Shr(flags_6, 4), BitAnd(flags_7, 240)),
     mirroring |->
        IF BitAnd(flags_6, 8) = 0
        THEN IF BitAnd(flags_6, 1) = 0 THEN "Horizontal" ELSE "Vertical"
        ELSE "FourScreen",
     has_ram |-> BitAnd(flags_6, 2) = 2]

\* Option::None for chr_rom: the cartridge has CHR-RAM
NoChr == [kind |-> "None"]

\* bytes[from..].to_vec(): the rest of the vector
Slice_to_end(len, from, to) ==
    IF from > len THEN LoadAbort("slice index out of range")
    ELSE [kind |-> "Bytes", from |-> from, to |-> len]

\* bytes[from..to].to_vec(): the slice, as the offsets it covers; slicing
\* past the end of the vector panics
Slice(len, from, to) ==
    IF from > to \/ to > len THEN LoadAbort("slice index out of range")
    ELSE [kind |-> "Bytes", from |-> from, to |-> to]

\* mappers::mmc3::from_header with MMC3PrgChip::new and MMC3ChrChip::new:
\* why the construction panics, or "none".  oc: overflow checks and debug
\* assertions are on.
MMC3FromHeaderPanic(header, chr_rom, oc) ==
    LET total_prg_banks == WrapU8(header.prg_rom_16kb_units * 2)
    IN  IF oc /\ header.prg_rom_16kb_units * 2 > 255
        THEN "prg_rom_16kb_units * 2 overflows u8"
        ELSE IF oc /\ header.prg_rom_16kb_units * 16384 < 16384
        THEN "debug_assert!(prg_rom.len() >= 0x4000)"
        ELSE IF oc /\ total_prg_banks < 2
        THEN "total_prg_banks - 2 overflows u8"
        ELSE IF chr_rom.kind = "None"
        THEN "chr_rom.unwrap() on None"
        ELSE IF oc /\ header.chr_rom_8kb_units * 2 > 255
        THEN "chr_rom_8kb_units * 2 overflows u8"
        ELSE "none"

\* mappers::uxrom::from_header: why the construction panics, or "none"
UxROMFromHeaderPanic(header, oc) ==
    IF oc /\ header.prg_rom_16kb_units < 1
    THEN "prg_rom_16kb_units - 1 overflows u8"
    ELSE "none"

\* Ok((cpu bus, ppu bus, header))
LoadOk(mapper, prg_rom, chr_rom, header) ==
    [kind |-> "Ok", mapper |-> mapper, prg_rom |-> prg_rom,
     chr_rom |-> chr_rom, header |-> header]

\* from_file, the match on header.mapper
BuildMapper(prg_rom, chr_rom, header, oc) ==
    LET mmc3 == MMC3FromHeaderPanic(header, chr_rom, oc)
        uxrom == UxROMFromHeaderPanic(header, oc)
    IN  CASE header.mapper = 0 -> LoadOk("NROM", prg_rom, chr_rom, header)
          [] header.mapper = 1 -> LoadOk("MMC1", prg_rom, chr_rom, header)
          [] header.mapper \in {2, 94} ->
                IF uxrom # "none" THEN LoadAbort(uxrom)
                ELSE LoadOk("UxROM", prg_rom, chr_rom, header)
          [] header.mapper = 3 -> LoadOk("CNROM", prg_rom, chr_rom, header)
          [] header.mapper = 4 ->
                IF mmc3 # "none" THEN LoadAbort(mmc3)
                ELSE LoadOk("MMC3", prg_rom, chr_rom, header)
          [] OTHER -> Err("Mapper not yet implemented")

\* from_file slicing the ROM without the check against chr_rom_end
ParseImage_unchecked(img, oc) ==
    LET header == CartridgeHeader_new(img.prg_units, img.chr_units,
                                      img.flags_6, img.flags_7)
        prg_rom_end == 16 + header.prg_rom_16kb_units * 16384
        chr_rom_end == prg_rom_end + header.chr_rom_8kb_units * 8192
        prg_rom == Slice(img.len, 16, prg_rom_end)
        chr_rom == IF header.chr_rom_8kb_units = 0 THEN NoChr
                   ELSE Slice(img.len, prg_rom_end, chr_rom_end)
    IN  IF prg_rom.kind = "Abort" THEN prg_rom
        ELSE IF chr_rom.kind = "Abort" THEN chr_rom
        ELSE BuildMapper(prg_rom, chr_rom, header, oc)

\* from_file after the check of the header's length
ParseImage(img, oc) ==
    LET header == CartridgeHeader_new(img.prg_units, img.chr_units,
                                      img.flags_6, img.flags_7)
        prg_rom_start == 16
        prg_rom_end == prg_rom_start + header.prg_rom_16kb_units * 16384
        chr_rom_end == prg_rom_end + header.chr_rom_8kb_units * 8192
        prg_rom == Slice(img.len, 16, prg_rom_end)
        chr_rom == IF header.chr_rom_8kb_units = 0 THEN NoChr
                   ELSE Slice(img.len, prg_rom_end, chr_rom_end)
    IN  IF img.len < 8 THEN LoadAbort("index out of range")
        ELSE IF img.len < chr_rom_end
        THEN Err("header specified more rom than the file holds")
        ELSE IF prg_rom.kind = "Abort" THEN prg_rom
        ELSE IF chr_rom.kind = "Abort" THEN chr_rom
        ELSE BuildMapper(prg_rom, chr_rom, header, oc)

\* from_file
from_file(img, oc) ==
    IF ~img.io_ok THEN Err("io error")
    ELSE IF img.len < 16 THEN Err("header < 16 bytes")
    ELSE ParseImage(img, oc)

----------------------------------------------------------------------------
(* The cartridge mappers.  A ROM is modelled by its length: a read yields   *)
(* the index it takes the byte from, and an index at or past the length is  *)
(* the abort of Rust's bounds check.  PRG RAM is modelled at the offsets    *)
(* RamOffsets.                                                              *)

\* the outcome of one bus operation
BusRead(kind, index, value) == [kind |-> kind, index |-> index, value |-> value]

\* prg_rom[index] and chr_data[index]
RomRead(len, index) ==
    IF index < len THEN BusRead("Rom", index, None)
    ELSE BusRead("Abort", index, None)

RamOffsets == {0, 8191}                     \* $0000 and $1FFF of [u8; 0x2000]

\* Some([0; 0x2000])
ZeroedRam == [o \in RamOffsets |-> 0]

\* MMC3PrgChip::new
MMC3PrgChip_new(prg_len, total_prg_banks, prg_ram) ==
    [prg_len |-> prg_len,
     total_prg_banks |-> total_prg_banks,
     prg_ram |-> prg_ram,
     prg_banks |-> [i \in 0..3 |->
        CASE i = 0 -> 0 [] i = 1 -> 1
          [] i = 2 -> total_prg_banks - 2 [] i = 3 -> total_prg_banks - 1],
     prg_bank_offsets |-> [i \in 0..3 |->
        CASE i = 0 -> 0 [] i = 1 -> 8192
          [] i = 2 -> (total_prg_banks - 2) * 8192
          [] i = 3 -> (total_prg_banks - 1) * 8192],
     bank_mode |-> "LowBankSwappable",
     bank_select |-> 0]

\* MMC3PrgChip::update_bank_offsets refreshing the offset of the last window
\* from prg_banks[3] as well
MMC3Prg_update_bank_offsets_last(chip) ==
    IF chip.bank_mode = "LowBankSwappable"
    THEN [chip EXCEPT !.prg_bank_offsets[0] = chip.prg_banks[0] * 8192,
                      !.prg_bank_offsets[3] = chip.prg_banks[3] * 8192]
    ELSE [chip EXCEPT !.prg_bank_offsets[2] = chip.prg_banks[0] * 8192,
                      !.prg_bank_offsets[3] = chip.prg_banks[3] * 8192]

\* MMC3PrgChip::update_bank_offsets
MMC3Prg_update_bank_offsets(chip) ==
    IF chip.bank_mode = "LowBankSwappable"
    THEN [chip EXCEPT !.prg_bank_offsets[0] = chip.prg_banks[0] * 8192]
    ELSE [chip EXCEPT !.prg_bank_offsets[2] = chip.prg_banks[0] * 8192]

\* <MMC3PrgChip as CpuCartridgeAddressBus>::read_byte
MMC3Prg_read_byte(chip, address) ==
    CASE address \in 24576..32767 ->        \* $6000..=$7FFF
            BusRead("Ram", address - 24576, chip.prg_ram[address - 24576])
      [] address \in 32768..40959 ->        \* $8000..=$9FFF
            RomRead(chip.prg_len, (address - 32768) + chip.prg_bank_offsets[0])
      [] address \in 40960..49151 ->        \* $A000..=$BFFF, less $8000
            RomRead(chip.prg_len, (address - 32768) + chip.prg_bank_offsets[1])
      [] address \in 49152..57343 ->        \* $C000..=$DFFF
            RomRead(chip.prg_len, (address - 49152) + chip.prg_bank_offsets[2])
      [] address \in 57344..65535 ->        \* $E000..=$FFFF
            RomRead(chip.prg_len, (address - 57344) + chip.prg_bank_offsets[3])
      [] OTHER -> BusRead("Zero", None, 0)

\* write_byte latching four bits of the value as the target
MMC3Prg_write_byte_latch_4_bits(chip, address, value) ==
    CASE address \in 24576..32767 ->
            LET ram == [chip.prg_ram EXCEPT ![address - 24576] = value]
            IN  chip
      [] address \in 32768..40959 /\ address % 2 = 0 ->
            MMC3Prg_update_bank_offsets(
                [chip EXCEPT !.bank_select = BitAnd(value, 15),
                             !.bank_mode =
                                IF BitAnd(value, 64) = 0 THEN "LowBankSwappable"
                                ELSE "HighBankSwappable"])
      [] address \in 32768..40959 /\ address % 2 = 1 ->
            MMC3Prg_update_bank_offsets(
                CASE chip.bank_select = 6 ->
                        [chip EXCEPT !.prg_banks[0] = value % chip.total_prg_banks]
                  [] chip.bank_select = 7 ->
                        [chip EXCEPT !.prg_banks[3] = value % chip.total_prg_banks]
                  [] OTHER -> chip)
      [] OTHER -> chip

\* <MMC3PrgChip as CpuCartridgeAddressBus>::write_byte.  In $6000..=$7FFF
\* `if let Some(mut ram) = self.prg_ram` binds a copy of the array: the
\* store goes to the copy `ram`, which is dropped, and the chip is unchanged.
MMC3Prg_write_byte(chip, address, value) ==
    CASE address \in 24576..32767 ->
            LET ram == [chip.prg_ram EXCEPT ![address - 24576] = value]
            IN  chip
      [] address \in 32768..40959 /\ address % 2 = 0 ->
            MMC3Prg_update_bank_offsets(
                [chip EXCEPT !.bank_select = BitAnd(value, 7),
                             !.bank_mode =
                                IF BitAnd(value, 64) = 0 THEN "LowBankSwappable"
                                ELSE "HighBankSwappable"])
      [] address \in 32768..40959 /\ address % 2 = 1 ->
            MMC3Prg_update_bank_offsets(
                CASE chip.bank_select = 6 ->
                        [chip EXCEPT !.prg_banks[0] = value % chip.total_prg_banks]
                  [] chip.bank_select = 7 ->
                        [chip EXCEPT !.prg_banks[3] = value % chip.total_prg_banks]
                  [] OTHER -> chip)
      [] OTHER -> chip

\* ppu_vram: [0; 0x1000], held as the cells written so far; every other
\* cell holds 0
ZeroedVram == << >>

VramRead(vram, offset) == IF offset \in DOMAIN vram THEN vram[offset] ELSE 0

VramWrite(vram, offset, value) ==
    [o \in DOMAIN vram \cup {offset} |-> IF o = offset THEN value ELSE vram[o]]

\* MirroringMode::get_mirrored_address: the name-table offset of a PPU
\* address in $2000-$3EFF; $3000-$3EFF mirror down by $1000 first
get_mirrored_address(mode, address) ==
    LET offset == (address - 8192) % 4096
    IN  CASE mode = "Horizontal" -> (offset \div 2048) * 1024 + (offset % 1024)
          [] mode = "Vertical" -> offset % 2048
          [] mode = "FourScreen" -> offset

\* ppu_vram[index]
VramIndex(chip, index) ==
    IF index < 4096 THEN BusRead("Vram", index, VramRead(chip.ppu_vram, index))
    ELSE BusRead("Abort", index, None)

\* MMC3ChrChip::new
MMC3ChrChip_new(chr_len, banks, mirroring_mode) ==
    [chr_len |-> chr_len,
     total_chr_banks |-> banks,
     chr_banks |-> [i \in 0..7 |-> i],
     chr_bank_offsets |-> [i \in 0..7 |-> i * 1024],
     ppu_vram |-> ZeroedVram,
     mirroring_mode |-> mirroring_mode,
     bank_mode |-> "LowBank2KB",
     bank_select |-> 0]

\* update_bank_offsets laying the registers out as in LowBank2KB mode
MMC3Chr_update_bank_offsets_low_layout(chip) ==
    [chip EXCEPT !.chr_bank_offsets = [i \in 0..7 |-> chip.chr_banks[i] * 1024]]

\* MMC3ChrChip::update_bank_offsets
MMC3Chr_update_bank_offsets(chip) ==
    IF chip.bank_mode = "LowBank2KB"
    THEN [chip EXCEPT !.chr_bank_offsets =
            [i \in 0..7 |-> chip.chr_banks[i] * 1024]]
    ELSE [chip EXCEPT !.chr_bank_offsets =
            [j \in 0..7 |-> chip.chr_banks[(j + 4) % 8] * 1024]]

\* read_byte serving the palette addresses from the name tables
MMC3Chr_read_byte_palette_mirror(chip, address) ==
    CASE address \in 0..8191 ->
            RomRead(chip.chr_len,
                    (address % 1024) + chip.chr_bank_offsets[address \div 1024])
      [] address \in 8192..16383 ->
            VramIndex(chip, get_mirrored_address(chip.mirroring_mode, address))
      [] OTHER -> BusRead("Abort", None, None)

\* <MMC3ChrChip as PpuCartridgeAddressBus>::read_byte
MMC3Chr_read_byte(chip, address) ==
    CASE address \in 0..8191 ->             \* $0000..=$1FFF, 1 KiB windows
            RomRead(chip.chr_len,
                    (address % 1024) + chip.chr_bank_offsets[address \div 1024])
      [] address \in 8192..16127 ->         \* $2000..=$3EFF
            VramIndex(chip, get_mirrored_address(chip.mirroring_mode, address))
      [] OTHER -> BusRead("Abort", None, None)  \* $3F00..=$3FFF and above: panic!

\* the outcome of a PPU-bus write: the chip after it, or the abort
ChipWrite(kind, chip) == [kind |-> kind, chip |-> chip]

\* write_byte storing at the low 12 bits of the address
MMC3Chr_write_byte_unmirrored(chip, address, value) ==
    CASE address \in 0..8191 -> ChipWrite("Write", chip)
      [] address \in 8192..16127 ->
            ChipWrite("Write",
                [chip EXCEPT !.ppu_vram = VramWrite(@, address % 4096, value)])
      [] OTHER -> ChipWrite("Abort", chip)

\* write_byte storing a pattern-table write in the name-table memory
MMC3Chr_write_byte_pattern_ram(chip, address, value) ==
    CASE address \in 0..16127 ->
            ChipWrite("Write",
                [chip EXCEPT !.ppu_vram = VramWrite(@, address % 4096, value)])
      [] OTHER -> ChipWrite("Abort", chip)

\* <MMC3ChrChip as PpuCartridgeAddressBus>::write_byte
MMC3Chr_write_byte(chip, address, value) ==
    CASE address \in 0..8191 -> ChipWrite("Write", chip)      \* $0000..=$1FFF
      [] address \in 8192..16127 ->                           \* $2000..=$3EFF
            LET mirrored_address ==
                    get_mirrored_address(chip.mirroring_mode, address)
            IN  IF mirrored_address < 4096
                THEN ChipWrite("Write",
                        [chip EXCEPT !.ppu_vram =
                            VramWrite(@, mirrored_address, value)])
                ELSE ChipWrite("Abort", chip)
      [] OTHER -> ChipWrite("Abort", chip)  \* $3F00..=$3FFF and above: panic!

\* cpu_write_byte without the test for FourScreen
MMC3Chr_cpu_write_byte_no_four_screen(chip, address, value) ==
    CASE address \in 32768..40959 /\ address % 2 = 0 ->
            MMC3Chr_update_bank_offsets(
                [chip EXCEPT !.bank_select = BitAnd(value, 7),
                             !.bank_mode =
                                IF BitAnd(value, 128) = 0 THEN "LowBank2KB"
                                ELSE "HighBank2KB"])
      [] address \in 32768..40959 /\ address % 2 = 1 ->
            MMC3Chr_update_bank_offsets(
                CASE chip.bank_select = 0 ->
                        LET b == BitAnd(value, 254) % chip.total_chr_banks
                        IN  [chip EXCEPT !.chr_banks[0] = b,
                                         !.chr_banks[1] = b + 1]
                  [] chip.bank_select = 1 ->
                        LET b == BitAnd(value, 254) % chip.total_chr_banks
                        IN  [chip EXCEPT !.chr_banks[2] = b,
                                         !.chr_banks[3] = b + 1]
                  [] chip.bank_select \in 2..5 ->
                        [chip EXCEPT !.chr_banks[chip.bank_select + 2] =
                                        value % chip.total_chr_banks]
                  [] OTHER -> chip)
      [] address \in 40960..49151 ->
            IF address % 2 = 0
            THEN [chip EXCEPT !.mirroring_mode =
                    IF BitAnd(value, 1) = 0 THEN "Vertical" ELSE "Horizontal"]
            ELSE chip
      [] OTHER -> chip

\* cpu_write_byte without the mask of the low bit for targets 0 and 1
MMC3Chr_cpu_write_byte_odd_pairs(chip, address, value) ==
    CASE address \in 32768..40959 /\ address % 2 = 0 ->
            MMC3Chr_update_bank_offsets(
                [chip EXCEPT !.bank_select = BitAnd(value, 7),
                             !.bank_mode =
                                IF BitAnd(value, 128) = 0 THEN "LowBank2KB"
                                ELSE "HighBank2KB"])
      [] address \in 32768..40959 /\ address % 2 = 1 ->
            MMC3Chr_update_bank_offsets(
                CASE chip.bank_select = 0 ->
                        LET b == value % chip.total_chr_banks
                        IN  [chip EXCEPT !.chr_banks[0] = b,
                                         !.chr_banks[1] = b + 1]
                  [] chip.bank_select = 1 ->
                        LET b == value % chip.total_chr_banks
                        IN  [chip EXCEPT !.chr_banks[2] = b,
                                         !.chr_banks[3] = b + 1]
                  [] chip.bank_select \in 2..5 ->
                        [chip EXCEPT !.chr_banks[chip.bank_select + 2] =
                                        value % chip.total_chr_banks]
                  [] OTHER -> chip)
      [] address \in 40960..49151 ->
            IF address % 2 = 0 /\ chip.mirroring_mode # "FourScreen"
            THEN [chip EXCEPT !.mirroring_mode =
                    IF BitAnd(value, 1) = 0 THEN "Vertical" ELSE "Horizontal"]
            ELSE chip
      [] OTHER -> chip

\* <MMC3ChrChip as PpuCartridgeAddressBus>::cpu_write_byte
MMC3Chr_cpu_write_byte(chip, address, value) ==
    CASE address \in 32768..40959 /\ address % 2 = 0 ->
            MMC3Chr_update_bank_offsets(
                [chip EXCEPT !.bank_select = BitAnd(value, 7),
                             !.bank_mode =
                                IF BitAnd(value, 128) = 0 THEN "LowBank2KB"
                                ELSE "HighBank2KB"])
      [] address \in 32768..40959 /\ address % 2 = 1 ->
            MMC3Chr_update_bank_offsets(
                CASE chip.bank_select = 0 ->
                        LET b == BitAnd(value, 254) % chip.total_chr_banks
                        IN  [chip EXCEPT !.chr_banks[0] = b,
                                         !.chr_banks[1] = b + 1]
                  [] chip.bank_select = 1 ->
                        LET b == BitAnd(value, 254) % chip.total_chr_banks
                        IN  [chip EXCEPT !.chr_banks[2] = b,
                                         !.chr_banks[3] = b + 1]
                  [] chip.bank_select \in 2..5 ->
                        [chip EXCEPT !.chr_banks[chip.bank_select + 2] =
                                        value % chip.total_chr_banks]
                  [] OTHER -> chip)
      [] address \in 40960..49151 ->        \* $A000..=$BFFF
            IF address % 2 = 0 /\ chip.mirroring_mode # "FourScreen"
            THEN [chip EXCEPT !.mirroring_mode =
                    IF BitAnd(value, 1) = 0 THEN "Vertical" ELSE "Horizontal"]
            ELSE chip
      [] OTHER -> chip

\* mmc3::from_header, for a header it does not abort on
MMC3_from_header(prg_len, chr_len, header) ==
    [mapper |-> "MMC3",
     prg |-> MMC3PrgChip_new(prg_len, WrapU8(header.prg_rom_16kb_units * 2),
                             ZeroedRam),
     chr |-> MMC3ChrChip_new(chr_len, WrapU8(header.chr_rom_8kb_units * 2),
                             header.mirroring)]

\* uxrom_update_banks without the test of the address
uxrom_update_banks_any_address(address, value, total_banks, banks, bank_offsets) ==
    [banks |-> [banks EXCEPT ![0] = value % total_banks],
     bank_offsets |-> [bank_offsets EXCEPT ![0] = (value % total_banks) * 16384]]

\* uxrom_update_banks: the banks and bank offsets after a CPU write
uxrom_update_banks(address, value, total_banks, banks, bank_offsets) ==
    IF address \in 32768..65535             \* $8000..=$FFFF
    THEN [banks |-> [banks EXCEPT ![0] = value % total_banks],
          bank_offsets |->
             [bank_offsets EXCEPT ![0] = (value % total_banks) * 16384]]
    ELSE [banks |-> banks, bank_offsets |-> bank_offsets]

NoRam == [kind |-> "None"]

\* BankedPrgChip::new
BankedPrgChip_new(prg_len, prg_ram, total_banks, banks, bank_offsets) ==
    [prg_len |-> prg_len, prg_ram |-> prg_ram, total_banks |-> total_banks,
     banks |-> banks, bank_offsets |-> bank_offsets]

\* <BankedPrgChip as CpuCartridgeAddressBus>::read_byte: a switchable 16 KiB
\* window at $8000 and one at $C000
BankedPrg_read_byte(chip, address) ==
    CASE address \in 24576..32767 ->
            IF chip.prg_ram = NoRam THEN BusRead("Zero", None, 0)
            ELSE BusRead("Ram", address - 24576, chip.prg_ram[address - 24576])
      [] address \in 32768..49151 ->
            RomRead(chip.prg_len, (address - 32768) + chip.bank_offsets[0])
      [] address \in 49152..65535 ->
            RomRead(chip.prg_len, (address - 49152) + chip.bank_offsets[1])
      [] OTHER -> BusRead("Zero", None, 0)

\* <BankedPrgChip as CpuCartridgeAddressBus>::write_byte with UxROM's
\* bank-update function
UxROMPrg_write_byte(chip, address, value) ==
    LET u == uxrom_update_banks(address, value, chip.total_banks,
                                chip.banks, chip.bank_offsets)
    IN  [chip EXCEPT !.banks = u.banks, !.bank_offsets = u.bank_offsets]

\* BankedChrChip::new: CHR ROM, or 8 KiB of CHR RAM when the image has none
BankedChrChip_new(chr_len, mirroring_mode, total_banks) ==
    [chr_len |-> IF chr_len = 0 THEN 8192 ELSE chr_len,
     is_ram |-> chr_len = 0,
     mirroring_mode |-> mirroring_mode,
     total_banks |-> total_banks,
     bank_offset |-> 0]

\* <BankedChrChip as PpuCartridgeAddressBus>::read_byte, pattern tables
BankedChr_read_byte(chip, address) ==
    IF address \in 0..8191 THEN RomRead(chip.chr_len, address + chip.bank_offset)
    ELSE BusRead("Abort", None, None)

\* uxrom::from_header, for a header it does not abort on
UxROM_from_header(prg_len, chr_len, header) ==
    [mapper |-> "UxROM",
     prg |-> BankedPrgChip_new(prg_len, NoRam, header.prg_rom_16kb_units,
                [i \in 0..1 |-> IF i = 0 THEN 0
                                ELSE WrapU8(header.prg_rom_16kb_units - 1)],
                [i \in 0..1 |-> IF i = 0 THEN 0
                                ELSE (header.prg_rom_16kb_units - 1) * 16384]),
     chr |-> BankedChrChip_new(chr_len, header.mirroring, 1)]

\* the mapper objects from_file returned
Cartridge(ok) ==
    LET prg_len == ok.prg_rom.to - ok.prg_rom.from
        chr_len == IF ok.chr_rom.kind = "None" THEN 0
                   ELSE ok.chr_rom.to - ok.chr_rom.from
    IN  IF ok.mapper = "MMC3" THEN MMC3_from_header(prg_len, chr_len, ok.header)
        ELSE UxROM_from_header(prg_len, chr_len, ok.header)

\* CpuCartridgeAddressBus::read_byte
CartCpuRead(c, address) ==
    IF c.mapper = "MMC3" THEN MMC3Prg_read_byte(c.prg, address)
    ELSE BankedPrg_read_byte(c.prg, address)

\* Mmu::write_byte for a cartridge address: the write goes to the CPU bus
\* chip and, as cpu_write_byte, to the PPU bus chip
CartCpuWrite(c, address, value) ==
    IF c.mapper = "MMC3"
    THEN [c EXCEPT !.prg = MMC3Prg_write_byte(c.prg, address, value),
                   !.chr = MMC3Chr_cpu_write_byte(c.chr, address, value)]
    ELSE [c EXCEPT !.prg = UxROMPrg_write_byte(c.prg, address, value)]

\* PpuCartridgeAddressBus::read_byte
CartPpuRead(c, address) ==
    IF c.mapper = "MMC3" THEN MMC3Chr_read_byte(c.chr, address)
    ELSE BankedChr_read_byte(c.chr, address)

NoCart == [mapper |-> "None"]

\* one bus operation and its outcome
Access(b, op, address, value, res) ==
    [bus |-> b, op |-> op, address |-> address, value |-> value,
     kind |-> res.kind, index |-> res.index]

NoAccess == Access("none", "none", None, None, BusRead("None", None, None))

RamAddresses == {24576, 32767}              \* $6000, $7FFF

NoShadow == [a \in RamAddresses |-> None]

\* no cartridge is plugged in
CartIdle ==
    /\ cart = NoCart
    /\ access = NoAccess
    /\ shadow = NoShadow
    /\ writes = 0
    /\ bank_data_7 = None

----------------------------------------------------------------------------
(* The CPU specification: one action per CpuState and addressing mode, each *)
(* one call of Cpu::next.                                                   *)

NoTwin == [kind |-> "None"]

\* no JSR has pushed a return address yet
NoCall == [kind |-> "None"]

\* the JSR in state s with registers r is about to push its return address
Call(s, r) ==
    [kind |-> "Call", pc |-> r.program_counter, s |-> r.stack_pointer,
     target |-> s.address]

\* sdl2_app::run before the first iteration of its loop: no event pending,
\* no button down
HostIdle ==
    [ended |-> "no", queue |-> << >>, arrived |-> 0, buttons |-> {},
     iterations |-> 0, frame_complete |-> FALSE, presented |-> FALSE,
     handled |-> 0]

\* no call of next() was made yet
NoInstruction ==
    /\ host = HostIdle
    /\ itrace = << >>
    /\ cur_opcode = None
    /\ fetch_regs = registers
    /\ executed = FALSE
    /\ call = NoCall

\* Registers after reset, and register contents earlier instructions leave.
Regs(pc, a, x, y, sp, p) ==
    [program_counter |-> pc, a |-> a, x |-> x, y |-> y,
     stack_pointer |-> sp, status_register |-> p]

InitRegisters ==
    { Regs(49152, 0, 0, 0, 253, 52),          \* PC=$C000 S=$FD P=$34
      Regs(49152, 128, 255, 1, 0, 54),        \* X=$FF Y=$01 S=$00, Z set
      Regs(65534, 1, 1, 255, 255, 52) }       \* PC=$FFFE Y=$FF S=$FF

\* Cpu::new
InitCpu ==
    /\ state = FetchOpcodeState
    /\ registers \in InitRegisters
    /\ cycles = 0
    /\ mem = << >>
    /\ bus = << >>
    /\ prev = FetchOpcodeState
    /\ operand = None
    /\ fetched = 0
    /\ dots = 0
    /\ nmi_pending = FALSE
    /\ twin = NoTwin
    /\ NoInstruction
    /\ image = NoImage
    /\ loaded = NotLoaded
    /\ CartIdle

\* The end of Cpu::next: `self.state = ...; self.cycles += 1`
CommitCpu(res) ==
    /\ state' = res.state
    /\ registers' = res.registers
    /\ mem' = res.mem
    /\ bus' = res.bus
    /\ prev' = state
    /\ operand' = IF res.executed THEN res.operand ELSE operand
    /\ cycles' = IF res.state = Panicked THEN cycles ELSE cycles + 1
    /\ fetched' = IF state = FetchOpcodeState THEN fetched + 1 ELSE fetched
    /\ dots' = dots + PpuDots(res.bus)
    /\ itrace' = IF state = FetchOpcodeState THEN <<res.bus>>
                 ELSE Append(itrace, res.bus)
    /\ cur_opcode' = IF state # FetchOpcodeState THEN cur_opcode
                     ELSE IF res.state = Panicked THEN None
                     ELSE res.state.opcode
    /\ fetch_regs' = IF state = FetchOpcodeState THEN registers ELSE fetch_regs
    /\ executed' = res.executed
    /\ call' = IF state.tag = "WritePCHToStack" THEN Call(state, registers)
               ELSE call
    /\ UNCHANGED <<nmi_pending, twin, loadVars, cartVars>>

\* one call of next() made outside the host loop
Commit(res) == CommitCpu(res) /\ UNCHANGED hostVars

Running(tag) == state.tag = tag /\ cycles < MaxCycles

Reading(mode) == Running("ReadingOperand") /\ ModeOf(state.opcode) = mode

FetchOpcode ==
    /\ Running("FetchOpcode")
    /\ fetched < MaxInstructions
    /\ \E v \in OpcodeSet(mem, registers.program_counter), oc \in BOOLEAN :
          Commit(FetchOpcodeResult(registers, mem, v, oc))

ReadAbsolute ==
    /\ Reading("Absolute")
    /\ \E v \in ReadSet(mem, AbsoluteReadAddress(state, registers)), oc \in BOOLEAN :
          Commit(next_absolute_mode_state(state, registers, mem, v, oc))

ReadAbsoluteXIndexed ==
    /\ Reading("AbsoluteXIndexed")
    /\ \E v \in ReadSet(mem, AbsoluteIndexedReadAddress(state, registers, registers.x)),
          oc \in BOOLEAN :
          Commit(next_absolute_indexed_mode_state(state, registers, mem, v, oc,
                                                  registers.x))

ReadAbsoluteYIndexed ==
    /\ Reading("AbsoluteYIndexed")
    /\ \E v \in ReadSet(mem, AbsoluteIndexedReadAddress(state, registers, registers.y)),
          oc \in BOOLEAN :
          Commit(next_absolute_indexed_mode_state(state, registers, mem, v, oc,
                                                  registers.y))

ReadImmediate ==
    /\ Reading("Immediate")
    /\ \E v \in ReadSet(mem, registers.program_counter), oc \in BOOLEAN :
          Commit(ImmediateResult(state, registers, mem, v, oc))

ReadIndirect ==
    /\ Reading("Indirect")
    /\ \E v \in ReadSet(mem, IndirectReadAddress(state, registers)), oc \in BOOLEAN :
          Commit(IndirectResult(state, registers, mem, v, oc))

ReadIndirectXIndexed ==
    /\ Reading("IndirectXIndexed")
    /\ \E v \in ReadSet(mem, IndirectXReadAddress(state, registers)), oc \in BOOLEAN :
          \E v2 \in ReadSet(mem, IndirectXSecondAddress(state, v)) :
             Commit(IndirectXResult(state, registers, mem, v, v2, oc))

ReadIndirectYIndexed ==
    /\ Reading("IndirectYIndexed")
    /\ \E v \in ReadSet(mem, IndirectYReadAddress(state, registers)), oc \in BOOLEAN :
          Commit(IndirectYResult(state, registers, mem, v, oc))

ReadRelative ==
    /\ Reading("Relative")
    /\ \E v \in ReadSet(mem, registers.program_counter), oc \in BOOLEAN :
          Commit(RelativeResult(state, registers, mem, v, oc))

ReadZeroPage ==
    /\ Reading("ZeroPage")
    /\ \E v \in ReadSet(mem, ZeroPageReadAddress(state, registers)), oc \in BOOLEAN :
          \E v2 \in ReadSet(mem, ZeroPageSecondAddress(state, v)) :
             Commit(ZeroPageResult(state, registers, mem, v, v2, oc))

ReadZeroPageXIndexed ==
    /\ Reading("ZeroPageXIndexed")
    /\ \E v \in ReadSet(mem, ZeroPageIndexedReadAddress(state, registers, registers.x)),
          oc \in BOOLEAN :
          Commit(ZeroPageIndexedResult(state, registers, mem, v, oc, registers.x))

ReadZeroPageYIndexed ==
    /\ Reading("ZeroPageYIndexed")
    /\ \E v \in ReadSet(mem, ZeroPageIndexedReadAddress(state, registers, registers.y)),
          oc \in BOOLEAN :
          Commit(ZeroPageIndexedResult(state, registers, mem, v, oc, registers.y))

ThrowawayRead ==
    /\ Running("ThrowawayRead")
    /\ Commit(ThrowawayReadResult(state, registers, mem))

PushRegisterOnStack ==
    /\ Running("PushRegisterOnStack")
    /\ Commit(PushRegisterOnStackResult(state, registers, mem))

PreIncrementStackPointer ==
    /\ Running("PreIncrementStackPointer")
    /\ Commit(PreIncrementStackPointerResult(state, registers, mem))

PullRegisterFromStack ==
    /\ Running("PullRegisterFromStack")
    /\ \E v \in ReadSet(mem, StackAddress(PopRegisters(registers))) :
          Commit(PullRegisterFromStackResult(state, registers, mem, v))

PullPCLFromStack ==
    /\ Running("PullPCLFromStack")
    /\ \E v \in ReadSet(mem, StackAddress(PopRegisters(registers))) :
          Commit(PullPCLFromStackResult(state, registers, mem, v))

PullPCHFromStack ==
    /\ Running("PullPCHFromStack")
    /\ \E v \in ReadSet(mem, StackAddress(PopRegisters(registers))) :
          Commit(PullPCHFromStackResult(state, registers, mem, v))

IncrementProgramCounter ==
    /\ Running("IncrementProgramCounter")
    /\ Commit(IncrementProgramCounterResult(registers, mem))

WritePCHToStack ==
    /\ Running("WritePCHToStack")
    /\ Commit(WritePCHToStackResult(state, registers, mem))

WritePCLToStack ==
    /\ Running("WritePCLToStack")
    /\ Commit(WritePCLToStackResult(state, registers, mem))

SetProgramCounter ==
    /\ Running("SetProgramCounter")
    /\ Commit(SetProgramCounterResult(state, registers, mem))

BranchCrossesPageBoundary ==
    /\ Running("BranchCrossesPageBoundary")
    /\ Commit(BranchCrossesPageBoundaryResult(state, registers, mem))

WritingResult ==
    /\ Running("WritingResult")
    /\ Commit(WritingResultResult(state, registers, mem))

NextCpu ==
    \/ FetchOpcode
    \/ ReadAbsolute
    \/ ReadAbsoluteXIndexed
    \/ ReadAbsoluteYIndexed
    \/ ReadImmediate
    \/ ReadIndirect
    \/ ReadIndirectXIndexed
    \/ ReadIndirectYIndexed
    \/ ReadRelative
    \/ ReadZeroPage
    \/ ReadZeroPageXIndexed
    \/ ReadZeroPageYIndexed
    \/ ThrowawayRead
    \/ PushRegisterOnStack
    \/ PreIncrementStackPointer
    \/ PullRegisterFromStack
    \/ PullPCLFromStack
    \/ PullPCHFromStack
    \/ IncrementProgramCounter
    \/ WritePCHToStack
    \/ WritePCLToStack
    \/ SetProgramCounter
    \/ BranchCrossesPageBoundary
    \/ WritingResult

SpecCpu == InitCpu /\ [][NextCpu]_vars

\* The CPU running while the PPU holds an NMI edge pending.
InitInterrupt ==
    /\ state = FetchOpcodeState
    /\ registers \in InitRegisters
    /\ cycles = 0
    /\ mem = << >>
    /\ bus = << >>
    /\ prev = FetchOpcodeState
    /\ operand = None
    /\ fetched = 0
    /\ dots = 0
    /\ nmi_pending = TRUE
    /\ twin = NoTwin
    /\ NoInstruction
    /\ image = NoImage
    /\ loaded = NotLoaded
    /\ CartIdle

SpecInterrupt == InitInterrupt /\ [][NextCpu]_vars

----------------------------------------------------------------------------
(* The loader specification: from_file applied to a byte stream.            *)

\* Mapper IDs of the images: the implemented ones and others.
MapperSamples == {0, 1, 2, 3, 4, 5, 94, 255}

PrgUnitSamples == {0, 1, 2, 128, 255}

ChrUnitSamples == {0, 1, 128}

\* Bits 0 to 3 of flags_6 of the images.
FlagSamples == {0, 1, 2, 8, 9}

\* The size the header declares: 16 + 16 KiB * PRG units + 8 KiB * CHR units
DeclaredSize(prg, chr) == 16 + 16384 * prg + 8192 * chr

\* Lengths of the images around the two length checks of from_file.
LenSamples(prg, chr) ==
    {0, 7, 15, 16, DeclaredSize(prg, 0)} \cup
    {DeclaredSize(prg, chr) + d : d \in {-1, 0, 1}}

\* flags_6 and flags_7 of an image with mapper ID id and low flag bits f
Flags6(id, f) == (id % 16) * 16 + f

Flags7(id) == (id \div 16) * 16

Images ==
    { Image(io, len, magic, prg, chr, Flags6(id, f), Flags7(id)) :
        io \in BOOLEAN, magic \in BOOLEAN, id \in MapperSamples, f \in FlagSamples,
        prg \in PrgUnitSamples, chr \in ChrUnitSamples,
        len \in UNION { LenSamples(p, c) : p \in PrgUnitSamples, c \in ChrUnitSamples } }

CpuIdle ==
    /\ state = FetchOpcodeState
    /\ registers = Regs(49152, 0, 0, 0, 253, 52)
    /\ cycles = 0
    /\ mem = << >>
    /\ bus = << >>
    /\ prev = FetchOpcodeState
    /\ operand = None
    /\ fetched = 0
    /\ dots = 0
    /\ nmi_pending = FALSE
    /\ twin = NoTwin
    /\ NoInstruction

InitLoad ==
    /\ CpuIdle
    /\ CartIdle
    /\ image \in { i \in Images : i.len \in LenSamples(i.prg_units, i.chr_units) }
    /\ loaded = NotLoaded

\* from_file(file_path)
FromFile ==
    /\ loaded = NotLoaded
    /\ \E oc \in BOOLEAN : loaded' = from_file(image, oc)
    /\ UNCHANGED <<image, cpuVars, cartVars, hostVars>>

NextLoad == FromFile

SpecLoad == InitLoad /\ [][NextLoad]_vars

----------------------------------------------------------------------------
(* The header specification: CartridgeHeader::new applied to every pair of  *)
(* flag bytes.                                                              *)

InitHeader ==
    /\ CpuIdle
    /\ CartIdle
    /\ image \in { Image(TRUE, 16, TRUE, 1, 1, f6, f7) :
                     f6 \in 0..255, f7 \in 0..255 }
    /\ loaded = NotLoaded

\* CartridgeHeader::new(bytes[4], bytes[5], bytes[6], bytes[7])
NewHeader ==
    /\ loaded = NotLoaded
    /\ loaded' = [kind |-> "Header",
                  header |-> CartridgeHeader_new(image.prg_units, image.chr_units,
                                                 image.flags_6, image.flags_7)]
    /\ UNCHANGED <<image, cpuVars, cartVars, hostVars>>

NextHeader == NewHeader

SpecHeader == InitHeader /\ [][NextHeader]_vars

----------------------------------------------------------------------------
(* The cartridge specification: an MMC3 or UxROM cartridge loaded from an   *)
(* image, then any CPU writes, CPU reads and PPU pattern-table reads.       *)

MaxWrites == 2

\* flags_6 of the images: mapper 4 or 2 in the high nibble, and the three
\* mirroring settings
CartFlags6 == {64, 65, 72, 32, 33, 40}

CartImages ==
    { Image(TRUE, DeclaredSize(prg, chr), TRUE, prg, chr, f6, 0) :
        prg \in {1, 2}, chr \in {0, 1, 2}, f6 \in CartFlags6 }

\* $6000 $7FFF $8000 $8001 $A000 $A001 $FFFF
CpuWriteAddresses == {24576, 32767, 32768, 32769, 40960, 40961, 65535}

\* $4020 $6000 $7FFF $8000 $9FFF $A000 $BFFF $C000 $FFFF
CpuReadAddresses ==
    {16416, 24576, 32767, 32768, 40959, 40960, 49151, 49152, 65535}

\* $0000 $03FF $0400 $1000 $1FFF
PpuReadAddresses == {0, 1023, 1024, 4096, 8191}

\* bank-select values (register 0, 1, 6; 70 = $46 selects 6 in PRG mode
\* high, 130 = $82 selects 2 in CHR mode high, 255 selects 7 in both) and
\* bank numbers
WriteValues == {0, 1, 6, 70, 130, 255}

InitCart ==
    /\ CpuIdle
    /\ image \in CartImages
    /\ loaded = from_file(image, FALSE)
    /\ loaded.kind = "Ok"
    /\ cart = Cartridge(loaded)
    /\ access = NoAccess
    /\ shadow = NoShadow
    /\ writes = 0
    /\ bank_data_7 = None

CartRunning == access.kind # "Abort"

\* a CPU write of one of the values to one of the cartridge addresses
CpuWriteOf(addresses, values) ==
    /\ CartRunning
    /\ writes < MaxWrites
    /\ \E a \in addresses, v \in values :
          /\ cart' = CartCpuWrite(cart, a, v)
          /\ access' = Access("cpu", "write", a, v, BusRead("Write", None, None))
          /\ shadow' = IF a \in RamAddresses THEN [shadow EXCEPT ![a] = v]
                       ELSE shadow
          /\ bank_data_7' =
                IF /\ cart.mapper = "MMC3" /\ a \in 32768..40959 /\ a % 2 = 1
                   /\ cart.prg.bank_select = 7
                THEN v ELSE bank_data_7
    /\ writes' = writes + 1
    /\ UNCHANGED <<cpuVars, loadVars, hostVars>>

\* a CPU write to a cartridge address
CpuWrite == CpuWriteOf(CpuWriteAddresses, WriteValues)

\* a CPU read of a cartridge address
CpuRead ==
    /\ CartRunning
    /\ \E a \in CpuReadAddresses :
          LET res == CartCpuRead(cart, a)
          IN  access' = Access("cpu", "read", a, res.value, res)
    /\ UNCHANGED <<cart, shadow, writes, bank_data_7, cpuVars, loadVars,
                   hostVars>>

\* a PPU read of one of the addresses
PpuReadOf(addresses) ==
    /\ CartRunning
    /\ \E a \in addresses :
          LET res == CartPpuRead(cart, a)
          IN  access' = Access("ppu", "read", a, res.value, res)
    /\ UNCHANGED <<cart, shadow, writes, bank_data_7, cpuVars, loadVars,
                   hostVars>>

\* a PPU read of a pattern-table address
PpuRead == PpuReadOf(PpuReadAddresses)

NextCart == CpuWrite \/ CpuRead \/ PpuRead

SpecCart == InitCart /\ [][NextCart]_vars

----------------------------------------------------------------------------
(* Properties of the CPU (checked under SpecCpu) *)

InternalStates ==
    {"IncrementProgramCounter", "SetProgramCounter", "BranchCrossesPageBoundary"}

\* C1: every call of Cpu::next makes exactly one MMU read or write, except
\* from IncrementProgramCounter, SetProgramCounter and
\* BranchCrossesPageBoundary, which make none.
C1_OneAccessPerCall ==
    (cycles > 0 /\ state # Panicked) =>
        Len(bus) = IF prev.tag \in InternalStates THEN 0 ELSE 1

\* C2: a read-modify-write instruction in WritingResult{dummy: true} writes
\* the original byte to the target address, moves to
\* WritingResult{dummy: false}, writes the modified byte to the same
\* address on the next cycle and only then returns to FetchOpcode.
C2_DummyWriteThenWrite ==
    /\ (cycles > 0 /\ prev.tag = "WritingResult" /\ prev.dummy) =>
          /\ bus = <<Wr(prev.address, operand)>>
          /\ state = WritingResultState(prev.address, prev.value, FALSE)
    /\ (cycles > 0 /\ prev.tag = "WritingResult" /\ ~prev.dummy) =>
          /\ bus = <<Wr(prev.address, prev.value)>>
          /\ state = FetchOpcodeState

\* C5: no call of Cpu::next panics, whatever the program counter and the
\* memory content.
C5_StepNeverPanics == state # Panicked

\* C12: each call of cpu.next() by the host loop advances the CPU by one
\* cycle and the PPU by three dots: after n calls the PPU has advanced 3n
\* dots.
C12_ThreeDotsPerStep == state # Panicked => dots = 3 * cycles

\* C13: a call of next() made in FetchOpcode while an interrupt is pending
\* starts the interrupt sequence instead of decoding the opcode at PC (and
\* no interrupt sequence starts in any other state).
C13_InterruptPolledAtFetch ==
    (/\ nmi_pending /\ cycles > 0 /\ state # Panicked
     /\ prev = FetchOpcodeState)
    => state.tag \notin {"ReadingOperand", "ThrowawayRead"}

----------------------------------------------------------------------------
(* Properties of the cartridge (checked under SpecCart) *)

\* C3: on the MMC3 CPU bus a read of an address in $6000-$7FFF returns the
\* byte last written to that address.
C3_PrgRamReadsBackWrite ==
    (/\ cart.mapper = "MMC3"
     /\ access.bus = "cpu" /\ access.op = "read"
     /\ access.address \in RamAddresses
     /\ shadow[access.address] # None)
    => (access.kind = "Ram" /\ access.value = shadow[access.address])

\* C4: for MMC3 and UxROM cartridges with at least one PRG unit, after any
\* CPU writes, every CPU read of $8000-$FFFF indexes the PRG ROM below its
\* length and every PPU read of $0000-$1FFF indexes the CHR ROM below its
\* length.
C4_RomReadsInRange ==
    /\ (access.bus = "cpu" /\ access.op = "read"
            /\ access.address \in 32768..65535)
          => (access.kind = "Rom" /\ access.index < cart.prg.prg_len)
    /\ (access.bus = "ppu" /\ access.op = "read" /\ access.address \in 0..8191)
          => (access.kind = "Rom" /\ access.index < cart.chr.chr_len)

\* the step is a CPU write to the cartridge
IsCpuWrite == writes' = writes + 1

\* the number of 8 KiB banks of the PRG ROM
TotalPrgBanks == cart.prg.prg_len \div 8192

\* the number of 1 KiB banks of the CHR ROM
TotalChrBanks == cart.chr.chr_len \div 1024

\* the MMC3 bank registers R0..R7 as the chips hold them: R0 and R1 are the
\* first slots of the 2 KiB pairs, R2..R5 the 1 KiB slots, R6 and R7 the PRG
\* slots that bank-data writes with target 6 and 7 store to
BankRegisters(c) ==
    [t \in 0..7 |->
        CASE t = 0 -> c.chr.chr_banks[0]
          [] t = 1 -> c.chr.chr_banks[2]
          [] t \in 2..5 -> c.chr.chr_banks[t + 2]
          [] t = 6 -> c.prg.prg_banks[0]
          [] t = 7 -> c.prg.prg_banks[3]]

\* the bank a bank-data write of v to target t selects: v modulo the number
\* of banks, the low bit forced to 0 for the 2 KiB pairs
BankDataValue(t, v) ==
    CASE t \in 0..1 -> BitAnd(v, 254) % TotalChrBanks
      [] t \in 2..5 -> v % TotalChrBanks
      [] t \in 6..7 -> v % TotalPrgBanks

\* the step is a CPU write to an even, or to an odd, address in $8000-$9FFF
IsBankSelect ==
    IsCpuWrite /\ access'.address \in 32768..40959 /\ access'.address % 2 = 0

IsBankData ==
    IsCpuWrite /\ access'.address \in 32768..40959 /\ access'.address % 2 = 1

\* C14: on MMC3 a write to an even address in $8000-$9FFF latches the low
\* three bits of the value as the target and changes no bank register; a
\* write to an odd address in $8000-$9FFF sets the bank register the latch
\* names to the value modulo the number of banks and leaves the other bank
\* registers, the mode bits and the latch unchanged.
C14_BankSelectProtocol ==
    [][cart.mapper = "MMC3" =>
        /\ IsBankSelect =>
              /\ cart'.prg.bank_select = access'.value % 8
              /\ cart'.chr.bank_select = access'.value % 8
              /\ BankRegisters(cart') = BankRegisters(cart)
        /\ IsBankData =>
              LET t == cart.prg.bank_select
              IN  /\ BankRegisters(cart') =
                        [BankRegisters(cart) EXCEPT
                            ![t] = BankDataValue(t, access'.value)]
                  /\ cart'.prg.bank_select = t
                  /\ cart'.chr.bank_select = cart.chr.bank_select
                  /\ cart'.prg.bank_mode = cart.prg.bank_mode
                  /\ cart'.chr.bank_mode = cart.chr.bank_mode]_vars

\* C15: on MMC3, in LowBankSwappable mode $8000-$9FFF shows the bank of
\* register 6 and $C000-$DFFF the second-last 8 KiB bank; in
\* HighBankSwappable mode $C000-$DFFF shows the bank of register 6 and
\* $8000-$9FFF the second-last bank, whatever the order of the writes.
C15_PrgLayout ==
    (cart.mapper = "MMC3" /\ access.bus = "cpu" /\ access.op = "read") =>
        LET low == cart.prg.bank_mode = "LowBankSwappable"
            r6 == BankRegisters(cart)[6]
            fixed == TotalPrgBanks - 2
            a == access.address
        IN  /\ a \in 32768..40959 =>
                  access.index = (IF low THEN r6 ELSE fixed) * 8192 + (a - 32768)
            /\ a \in 49152..57343 =>
                  access.index = (IF low THEN fixed ELSE r6) * 8192 + (a - 49152)

\* C17: on MMC3 a read of a in $A000-$BFFF takes the byte at
\* (v mod total_banks) * $2000 + (a - $A000), v being the value last written
\* to bank register 7, and the byte of bank 1 before any such write.
C17_Bank1Window ==
    (/\ cart.mapper = "MMC3"
     /\ access.bus = "cpu" /\ access.op = "read"
     /\ access.address \in 40960..49151)
    => LET bank == IF bank_data_7 = None THEN 1
                   ELSE bank_data_7 % TotalPrgBanks
       IN  /\ access.kind = "Rom"
           /\ access.index = bank * 8192 + (access.address - 40960)

\* C20: on MMC3 a bank-data write of v to a 1 KiB target (2..5) selects
\* bank v modulo the number of 1 KiB banks of the CHR ROM (8 per 8 KiB
\* unit), which lies inside the ROM.
C20_ChrBankModulo ==
    [][(cart.mapper = "MMC3" /\ IsBankData /\ cart.chr.bank_select \in 2..5) =>
        LET slot == cart.chr.bank_select + 2
        IN  /\ cart'.chr.chr_banks[slot] = access'.value % TotalChrBanks
            /\ cart'.chr.chr_banks[slot] < TotalChrBanks]_vars

\* C16: on the MMC3 CPU bus a read of a in $E000-$FFFF takes the byte at
\* (total_banks - 1) * $2000 + (a - $E000), after any CPU writes.
C16_LastBankFixed ==
    (/\ cart.mapper = "MMC3"
     /\ access.bus = "cpu" /\ access.op = "read"
     /\ access.address \in 57344..65535)
    => (/\ access.kind = "Rom"
        /\ access.index = (TotalPrgBanks - 1) * 8192 + (access.address - 57344))

\* C16 witness: bank register 7 was written (prg_banks[3] no longer names the
\* last bank) and $FFFF still reads the last byte of the ROM.
C16_Witness ==
    /\ cart.mapper = "MMC3"
    /\ cart.prg.prg_banks[3] # TotalPrgBanks - 1
    /\ access.bus = "cpu" /\ access.op = "read" /\ access.address = 65535
    /\ access.index = cart.prg.prg_len - 1

\* C18: on MMC3 a CPU write to an even address in $A000-$BFFF sets the
\* mirroring to Vertical (bit 0 of the value 0) or Horizontal (bit 0 1)
\* unless the mode is FourScreen; no other step changes the mirroring mode.
C18_MirroringControl ==
    [][cart.mapper = "MMC3" =>
        cart'.chr.mirroring_mode =
            IF /\ IsCpuWrite
               /\ access'.address \in 40960..49151
               /\ access'.address % 2 = 0
               /\ cart.chr.mirroring_mode # "FourScreen"
            THEN (IF access'.value % 2 = 0 THEN "Vertical" ELSE "Horizontal")
            ELSE cart.chr.mirroring_mode]_vars

\* C18 witness: a cartridge loaded with Vertical mirroring is Horizontal
\* after a write of 1 to $A000.
C18_Witness ==
    /\ cart.mapper = "MMC3"
    /\ image.flags_6 = 65
    /\ access.op = "write" /\ access.address = 40960 /\ access.value = 1
    /\ cart.chr.mirroring_mode = "Horizontal"

\* C19: on UxROM a CPU write of v to $8000-$FFFF sets the low bank to
\* v mod total_banks and its offset to bank * $4000; a write below $8000
\* changes no bank state; the high bank is the last 16 KiB bank throughout.
C19_UxROMBankSwitch ==
    [][(cart.mapper = "UxROM" /\ IsCpuWrite) =>
        LET total == cart.prg.prg_len \div 16384
            a == access'.address
            v == access'.value
        IN  /\ a \in 32768..65535 =>
                  /\ cart'.prg.banks[0] = v % total
                  /\ cart'.prg.bank_offsets[0] = (v % total) * 16384
            /\ a < 32768 => cart'.prg = cart.prg
            /\ cart'.prg.banks[1] = total - 1
            /\ cart'.prg.bank_offsets[1] = (total - 1) * 16384]_vars

\* C19 witness: a 32 KiB UxROM cartridge shows bank 1 in the low window
\* after a write of 1 to $8000.
C19_Witness ==
    /\ cart.mapper = "UxROM"
    /\ cart.prg.prg_len = 32768
    /\ access.op = "write" /\ access.address = 32768 /\ access.value = 1
    /\ cart.prg.banks[0] = 1 /\ cart.prg.bank_offsets[0] = 16384
    /\ cart.prg.banks[1] = 1

----------------------------------------------------------------------------
(* Properties of the loader (checked under SpecLoad and SpecHeader) *)

ImplementedMappers == {0, 1, 2, 3, 4, 94}

MapperName(id) ==
    CASE id = 0 -> "NROM" [] id = 1 -> "MMC1" [] id \in {2, 94} -> "UxROM"
      [] id = 3 -> "CNROM" [] id = 4 -> "MMC3" [] OTHER -> "none"

\* the mapper ID an image declares
ImageMapper(img) == (img.flags_7 \div 16) * 16 + img.flags_6 \div 16

\* an image the format accepts: readable, iNES magic, at least one PRG unit,
\* bank counts that fit a byte when doubled, and all the declared ROM present
WellFormed(img) ==
    /\ img.io_ok /\ img.magic_ok
    /\ img.prg_units \in 1..127 /\ img.chr_units \in 0..127
    /\ img.len >= DeclaredSize(img.prg_units, img.chr_units)

\* C6: from_file returns Ok for a well-formed image whose mapper ID is 0, 1,
\* 2, 3, 4 or 94 (94 building the mapper of 2), and an error value for every
\* other mapper ID.
C6_MapperDispatch ==
    loaded # NotLoaded =>
        /\ (WellFormed(image) /\ ImageMapper(image) \in ImplementedMappers) =>
              (loaded.kind = "Ok" /\ loaded.mapper = MapperName(ImageMapper(image)))
        /\ ImageMapper(image) \notin ImplementedMappers => loaded.kind = "Err"

\* C7: from_file returns an error value whenever the stream is shorter than
\* the 16-byte header or than the size the header declares, and never gets
\* as far as slicing it.
C7_ShortStreamIsError ==
    (/\ loaded # NotLoaded
     /\ \/ image.len < 16
        \/ image.len < DeclaredSize(image.prg_units, image.chr_units))
    => loaded.kind = "Err"

\* C7 witness: a stream that holds the header but not the declared ROM was
\* loaded and refused.
C7_Witness ==
    /\ image.io_ok /\ image.len >= 16
    /\ image.len = DeclaredSize(image.prg_units, image.chr_units) - 1
    /\ image.chr_units > 0
    /\ loaded.kind = "Err"

\* C8: from_file returns an error value for every stream whose first four
\* bytes are not the iNES magic.
C8_BadMagicIsError ==
    (loaded # NotLoaded /\ ~image.magic_ok) => loaded.kind = "Err"

\* C9: loading ends in a returned value (Ok or Err) for every byte stream,
\* never in an abort.
C9_LoadNeverAborts == loaded.kind # "Abort"

\* C10: CartridgeHeader::new decodes mapper = high nibble of flags_7 as the
\* high nibble and high nibble of flags_6 as the low nibble; mirroring =
\* FourScreen when bit 3 of flags_6 is set, else Vertical when bit 0 is set,
\* else Horizontal; has_ram = bit 1 of flags_6.
C10_HeaderDecode ==
    loaded.kind = "Header" =>
        /\ loaded.header.mapper
              = (image.flags_7 \div 16) * 16 + image.flags_6 \div 16
        /\ loaded.header.mirroring
              = IF (image.flags_6 \div 8) % 2 = 1 THEN "FourScreen"
                ELSE IF image.flags_6 % 2 = 1 THEN "Vertical"
                ELSE "Horizontal"
        /\ loaded.header.has_ram = ((image.flags_6 \div 2) % 2 = 1)
        /\ loaded.header.prg_rom_16kb_units = image.prg_units
        /\ loaded.header.chr_rom_8kb_units = image.chr_units

\* C10 witness: flags_6 = $E9 (bits 3 and 0 set) and flags_7 = $5F were
\* decoded to mapper 94 with FourScreen mirroring.
C10_Witness ==
    /\ loaded.kind = "Header"
    /\ image.flags_6 = 233 /\ image.flags_7 = 95
    /\ loaded.header.mapper = 94
    /\ loaded.header.mirroring = "FourScreen"
    /\ ~loaded.header.has_ram

----------------------------------------------------------------------------
(* Two copies of the CPU and the mapper, stepped with the same bus inputs  *)

\* Number of calls of Cpu::next each copy makes.
MaxTwinCycles == 7

\* The bytes the bus hands to a read outside tracked RAM: $80 makes the
\* addresses $8000 (bank select) and $80FF (bank data) reachable.
TwinBytes == {0, 128, 255}

\* LDA #imm, STA zp, STA abs, STA abs,X, INC abs, JMP abs
TwinOpcodes == {169, 133, 141, 157, 238, 76}

\* Mmu::read_byte with the byte e on the bus for untracked memory
ReadValue(m, a, e) ==
    IF a = None THEN 0
    ELSE IF IsRam(a) /\ RamOffset(a) \in DOMAIN m THEN m[RamOffset(a)]
    ELSE e

\* Cpu::next as a function of the CPU (s, r, m), the bytes e1 and e2 on the
\* bus and the build's overflow checks oc
Step(s, r, m, e1, e2, oc) ==
    LET mode == IF s.tag = "ReadingOperand" THEN ModeOf(s.opcode) ELSE "None"
        pop == StackAddress(PopRegisters(r))
    IN  CASE s.tag = "FetchOpcode" ->
               FetchOpcodeResult(r, m, ReadValue(m, r.program_counter, e1), oc)
          [] mode = "Absolute" ->
               next_absolute_mode_state(s, r, m,
                   ReadValue(m, AbsoluteReadAddress(s, r), e1), oc)
          [] mode = "AbsoluteXIndexed" ->
               next_absolute_indexed_mode_state(s, r, m,
                   ReadValue(m, AbsoluteIndexedReadAddress(s, r, r.x), e1),
                   oc, r.x)
          [] mode = "AbsoluteYIndexed" ->
               next_absolute_indexed_mode_state(s, r, m,
                   ReadValue(m, AbsoluteIndexedReadAddress(s, r, r.y), e1),
                   oc, r.y)
          [] mode = "Immediate" ->
               ImmediateResult(s, r, m, ReadValue(m, r.program_counter, e1), oc)
          [] mode = "Indirect" ->
               IndirectResult(s, r, m,
                   ReadValue(m, IndirectReadAddress(s, r), e1), oc)
          [] mode = "IndirectXIndexed" ->
               LET v == ReadValue(m, IndirectXReadAddress(s, r), e1)
               IN  IndirectXResult(s, r, m, v,
                       ReadValue(m, IndirectXSecondAddress(s, v), e2), oc)
          [] mode = "IndirectYIndexed" ->
               IndirectYResult(s, r, m,
                   ReadValue(m, IndirectYReadAddress(s, r), e1), oc)
          [] mode = "Relative" ->
               RelativeResult(s, r, m, ReadValue(m, r.program_counter, e1), oc)
          [] mode = "ZeroPage" ->
               LET v == ReadValue(m, ZeroPageReadAddress(s, r), e1)
               IN  ZeroPageResult(s, r, m, v,
                       ReadValue(m, ZeroPageSecondAddress(s, v), e2), oc)
          [] mode = "ZeroPageXIndexed" ->
               ZeroPageIndexedResult(s, r, m,
                   ReadValue(m, ZeroPageIndexedReadAddress(s, r, r.x), e1),
                   oc, r.x)
          [] mode = "ZeroPageYIndexed" ->
               ZeroPageIndexedResult(s, r, m,
                   ReadValue(m, ZeroPageIndexedReadAddress(s, r, r.y), e1),
                   oc, r.y)
          [] s.tag = "ThrowawayRead" -> ThrowawayReadResult(s, r, m)
          [] s.tag = "PushRegisterOnStack" -> PushRegisterOnStackResult(s, r, m)
          [] s.tag = "PreIncrementStackPointer" ->
               PreIncrementStackPointerResult(s, r, m)
          [] s.tag = "PullRegisterFromStack" ->
               PullRegisterFromStackResult(s, r, m, ReadValue(m, pop, e1))
          [] s.tag = "PullPCLFromStack" ->
               PullPCLFromStackResult(s, r, m, ReadValue(m, pop, e1))
          [] s.tag = "PullPCHFromStack" ->
               PullPCHFromStackResult(s, r, m, ReadValue(m, pop, e1))
          [] s.tag = "IncrementProgramCounter" ->
               IncrementProgramCounterResult(r, m)
          [] s.tag = "WritePCHToStack" -> WritePCHToStackResult(s, r, m)
          [] s.tag = "WritePCLToStack" -> WritePCLToStackResult(s, r, m)
          [] s.tag = "SetProgramCounter" -> SetProgramCounterResult(s, r, m)
          [] s.tag = "BranchCrossesPageBoundary" ->
               BranchCrossesPageBoundaryResult(s, r, m)
          [] s.tag = "WritingResult" -> WritingResultResult(s, r, m)

\* the call makes a second read, whose byte is e2
SecondRead(s) ==
    /\ s.tag = "ReadingOperand"
    /\ ModeOf(s.opcode) \in {"ZeroPage", "IndirectXIndexed"}

\* a mapper that acts on writes made on even CPU cycles only
CartWriteAt_even_cycles(c, address, value, cyc) ==
    IF cyc % 2 = 1 THEN c ELSE CartCpuWrite(c, address, value)

\* CpuCartridgeAddressBus::write_byte(address, value, cycles) and
\* PpuCartridgeAddressBus::cpu_write_byte(address, value, cycles): the
\* cycle count is the parameter `_: u32`, which the mapper does not use
CartWriteAt(c, address, value, cyc) == CartCpuWrite(c, address, value)

\* the mapper after the bus transactions b of the call made at cycle cyc:
\* the MMU hands each write of $4020-$FFFF to the cartridge
RECURSIVE CartAfter(_, _, _)
CartAfter(c, b, cyc) ==
    IF b = << >> THEN c
    ELSE LET t == Head(b)
             c1 == IF t.op = "write" /\ t.address >= 16416
                   THEN CartWriteAt(c, t.address, t.value, cyc)
                   ELSE c
         IN  CartAfter(c1, Tail(b), cyc)

\* an MMC3 image: 2 PRG units, 1 CHR unit, horizontal mirroring
TwinImage == Image(TRUE, DeclaredSize(2, 1), TRUE, 2, 1, 64, 0)

\* the second copy: the same registers, pipeline state, memory and bank
\* registers, at cycle count cyc
Twin(s, r, m, b, c, cyc) ==
    [kind |-> "Twin", state |-> s, registers |-> r, mem |-> m, bus |-> b,
     cart |-> c, cycles |-> cyc]

InitTwin ==
    /\ state = FetchOpcodeState
    /\ registers \in InitRegisters
    /\ cycles = 0
    /\ mem = << >>
    /\ bus = << >>
    /\ prev = FetchOpcodeState
    /\ operand = None
    /\ fetched = 0
    /\ dots = 0
    /\ nmi_pending = FALSE
    /\ NoInstruction
    /\ image = TwinImage
    /\ loaded = from_file(image, FALSE)
    /\ cart = Cartridge(loaded)
    /\ access = NoAccess
    /\ shadow = NoShadow
    /\ writes = 0
    /\ bank_data_7 = None
    /\ \E cyc \in {0, 1} :
          twin = Twin(state, registers, mem, bus, cart, cyc)

\* one call of next() on each copy, with the same bytes on the bus
TwinStep ==
    /\ state.tag # "Panicked" /\ twin.state.tag # "Panicked"
    /\ cycles < MaxTwinCycles
    /\ state.tag = "FetchOpcode" => fetched < MaxInstructions
    /\ \E e1 \in IF state.tag = "FetchOpcode" THEN TwinOpcodes ELSE TwinBytes,
          e2 \in IF SecondRead(state) THEN TwinBytes ELSE {0},
          oc \in BOOLEAN :
          /\ state.tag = "FetchOpcode" =>
                ReadValue(mem, registers.program_counter, e1)
                    \in DOMAIN OPCODE_TABLE
          /\ twin.state.tag = "FetchOpcode" =>
                ReadValue(twin.mem, twin.registers.program_counter, e1)
                    \in DOMAIN OPCODE_TABLE
          /\ \E ra \in {Step(state, registers, mem, e1, e2, oc)},
                rb \in {Step(twin.state, twin.registers, twin.mem, e1, e2, oc)} :
                 /\ state' = ra.state
                 /\ registers' = ra.registers
                 /\ mem' = ra.mem
                 /\ bus' = ra.bus
                 /\ prev' = state
                 /\ operand' = IF ra.executed THEN ra.operand ELSE operand
                 /\ cycles' = IF ra.state = Panicked THEN cycles ELSE cycles + 1
                 /\ fetched' = IF state = FetchOpcodeState THEN fetched + 1
                               ELSE fetched
                 /\ dots' = dots + PpuDots(ra.bus)
                 /\ cart' = CartAfter(cart, ra.bus, cycles)
                 /\ twin' = Twin(rb.state, rb.registers, rb.mem, rb.bus,
                                 CartAfter(twin.cart, rb.bus, twin.cycles),
                                 IF rb.state = Panicked THEN twin.cycles
                                 ELSE twin.cycles + 1)
    /\ UNCHANGED <<nmi_pending, itrace, cur_opcode, fetch_regs, executed,
                   call, hostVars, loadVars, access, shadow, writes, bank_data_7>>

NextTwin == TwinStep

SpecTwin == InitTwin /\ [][NextTwin]_vars

----------------------------------------------------------------------------
(* Properties of instruction timing (checked under SpecCpu).  Cycle 1 of   *)
(* an instruction is the call made in FetchOpcode.                         *)

\* the number of calls made for the current instruction
ICycle == Len(itrace)

CurMode == IF cur_opcode = None THEN "None" ELSE ModeOf(cur_opcode)

CurType == IF cur_opcode = None THEN "None" ELSE TypeOf(cur_opcode)

Alive == state # Panicked

\* the current instruction was completed by the last call
Completed == Alive /\ state = FetchOpcodeState /\ ICycle > 0

\* the index register of the current instruction's addressing mode
CurIndex ==
    IF CurMode \in {"AbsoluteXIndexed", "ZeroPageXIndexed", "IndirectXIndexed"}
    THEN fetch_regs.x ELSE fetch_regs.y

LastAddress == itrace[ICycle][Len(itrace[ICycle])].address

\* C22: in (Indirect),Y mode cycles 3 and 4 read the low and high address
\* bytes at the zero-page pointer; a Read instruction is executed on cycle 5
\* when address + Y stays in the 256-byte page of address and on cycle 6
\* when it leaves it; a Write instruction always takes 6 cycles.
C22_IndirectYTiming ==
    (Alive /\ CurMode = "IndirectYIndexed") =>
       /\ executed => ICycle >= 5
       /\ ICycle >= 4 =>
             LET p == itrace[3][1].address
             IN  /\ p < 256
                 /\ itrace[3] = <<Rd(p)>>
                 /\ itrace[4] = <<Rd(WrapU8(p + 1))>>
       /\ (executed /\ CurType = "Read") =>
             LET unindexed == WrapU16(LastAddress + 65536 - fetch_regs.y)
                 crossed == Shr(unindexed, 8) # Shr(LastAddress, 8)
             IN  ICycle = IF crossed THEN 6 ELSE 5
       /\ (Completed /\ CurType = "Write") => ICycle = 6

\* the pointer reads of (Indirect,X): the low address byte at
\* (ptr + X) mod 256 on cycle 4, the high one at (ptr + X + 1) mod 256 on
\* cycle 5, both in zero page
IndirectXPointerReads ==
    /\ (ICycle = 4 /\ state.tag = "ReadingOperand") =>
          itrace[4] = <<Rd(WrapU8(state.indirect_address_low_byte
                                  + fetch_regs.x))>>
    /\ ICycle >= 5 =>
          /\ itrace[4][1].address < 256
          /\ itrace[5][1] = Rd(WrapU8(itrace[4][1].address + 1))

\* Read and Write instructions in (Indirect,X) mode take 6 cycles, a Read
\* reading its operand on the sixth
IndirectXLength ==
    /\ (Completed /\ CurType \in {"Read", "Write"}) => ICycle = 6
    /\ (executed /\ CurType = "Read") =>
          ICycle = 6 /\ Len(itrace[6]) = 1 /\ itrace[6][1].op = "read"

\* C23: an (Indirect,X) instruction takes 6 cycles: fetch opcode, fetch
\* pointer, dummy read, read the low address byte at (ptr + X) mod 256, read
\* the high address byte at (ptr + X + 1) mod 256, read the operand; both
\* pointer reads are in zero page.
C23_IndirectXTiming ==
    (Alive /\ CurMode = "IndirectXIndexed") =>
       /\ ICycle >= 2 =>
             itrace[2] = <<Rd(WrapU16(fetch_regs.program_counter + 1))>>
       /\ ICycle >= 3 => Len(itrace[3]) = 1 /\ itrace[3][1].op = "read"
       /\ IndirectXPointerReads
       /\ IndirectXLength

\* C24: JMP (Indirect) takes 5 cycles; with the indirect address $HHLL the
\* target low byte is read at $HHLL on cycle 4 and the high byte at
\* $HH:((LL + 1) mod 256) on cycle 5, in the same page, and the jump is made
\* in that call.
C24_IndirectJump ==
    (Alive /\ CurMode = "Indirect") =>
       /\ executed => ICycle = 5
       /\ (ICycle = 4 /\ state.tag = "ReadingOperand") =>
             itrace[4] = <<Rd(Word(state.indirect_address_low_byte,
                                   state.indirect_address_high_byte))>>
       /\ ICycle >= 5 =>
             LET a == itrace[4][1].address
             IN  /\ ICycle = 5 /\ Completed /\ executed
                 /\ itrace[5] = <<Rd(Word(WrapU8((a % 256) + 1), a \div 256))>>
                 /\ registers.program_counter % 256 = prev.address_low_byte

\* C24 witness: the indirect address is $FFFF: the high byte was read at
\* $FF00 and the jump was made on cycle 5.
C24_Witness ==
    /\ Alive /\ CurMode = "Indirect" /\ ICycle = 5 /\ executed
    /\ itrace[4] = <<Rd(65535)>>
    /\ itrace[5] = <<Rd(65280)>>
    /\ state = FetchOpcodeState

\* the PC after the operand byte of a two-byte instruction was fetched
PcAfterOperand == WrapU16(fetch_regs.program_counter + 2)

\* PC plus the byte v read as a signed 8-bit offset, modulo 2^16
BranchTarget(pc, v) == (pc + 65536 + (IF v >= 128 THEN v - 256 ELSE v)) % 65536

\* C25: a branch whose condition is false takes 2 cycles and leaves PC just
\* past the operand; a taken branch ends with PC = PC-after-operand plus the
\* signed operand (mod 2^16), after 3 cycles when that target is in the page
\* of the PC after the operand fetch and after 4 cycles when it is not.
C25_BranchTiming ==
    (Completed /\ CurMode = "Relative") =>
       LET taken == BranchTaken(OperationOf(cur_opcode),
                                fetch_regs.status_register)
           target == BranchTarget(PcAfterOperand, operand)
       IN  IF ~taken
           THEN ICycle = 2 /\ registers.program_counter = PcAfterOperand
           ELSE /\ registers.program_counter = target
                /\ ICycle = IF target \div 256 = PcAfterOperand \div 256
                            THEN 3 ELSE 4

\* C25 witness: BNE at $FFFE with offset -1 and Z clear: the operand fetch
\* leaves PC = $0000, the target $FFFF is in another page, 4 cycles.
C25_Witness ==
    /\ Completed /\ CurMode = "Relative" /\ ICycle = 4
    /\ fetch_regs.program_counter = 65534
    /\ operand = 255
    /\ registers.program_counter = 65535

\* the operand of a ZeroPage,X / ZeroPage,Y instruction is accessed at
\* (zp + index) mod 256, and Read and Write instructions take 4 cycles
ZeroPageIndexedAccess ==
    /\ ICycle >= 3 => itrace[3][1] = Rd(itrace[3][1].address)
                      /\ itrace[3][1].address < 256
    /\ executed => LastAddress = WrapU8(itrace[3][1].address + CurIndex)
    /\ (executed /\ CurType = "Read") => ICycle = 4
    /\ (Completed /\ CurType \in {"Read", "Write"}) =>
          /\ ICycle = 4
          /\ LastAddress = WrapU8(itrace[3][1].address + CurIndex)

\* C26: a ZeroPage,X or ZeroPage,Y instruction takes 4 cycles; its third
\* cycle is a dummy read of the unindexed zero-page address zp, and the
\* operand is accessed at (zp + index) mod 256, inside zero page.
C26_ZeroPageIndexedTiming ==
    (Alive /\ CurMode \in {"ZeroPageXIndexed", "ZeroPageYIndexed"}) =>
       /\ ICycle = 3 => itrace[3] = <<Rd(prev.address_low_byte)>>
       /\ ZeroPageIndexedAccess

\* the PC is n bytes past the opcode of the current instruction
PcAdvanced(n) ==
    registers.program_counter = WrapU16(fetch_regs.program_counter + n)

\* C27: an instruction that reads its operand is executed on cycle 2 in
\* Immediate mode, on cycle 3 in ZeroPage mode and on cycle 4 in Absolute
\* mode, with PC 2, 2 and 3 bytes past the opcode; a Jump in Absolute mode is
\* executed on cycle 3, in the call that fetches the high address byte, and
\* the target address is not read.
C27_ExecutionCycle ==
    (Alive /\ executed) =>
       /\ CurMode = "Immediate" =>
             /\ ICycle = 2 /\ PcAdvanced(2)
             /\ itrace[2] = <<Rd(WrapU16(fetch_regs.program_counter + 1))>>
       /\ (CurMode = "ZeroPage" /\ CurType \in {"Read", "ReadModifyWrite"}) =>
             /\ ICycle = 3 /\ PcAdvanced(2)
             /\ Len(itrace[3]) = 1 /\ itrace[3][1].op = "read"
             /\ itrace[3][1].address < 256
       /\ (CurMode = "Absolute" /\ CurType \in {"Read", "ReadModifyWrite"}) =>
             /\ ICycle = 4 /\ PcAdvanced(3)
             /\ Len(itrace[4]) = 1 /\ itrace[4][1].op = "read"
       /\ (CurMode = "Absolute" /\ CurType = "Jump") =>
             /\ ICycle = 3
             /\ itrace[3] = <<Rd(WrapU16(fetch_regs.program_counter + 2))>>

\* C27 witness: LDA abs was executed on cycle 4 with PC three bytes past the
\* opcode at $C000.
C27_Witness ==
    /\ Alive /\ executed /\ cur_opcode = 173 /\ ICycle = 4
    /\ fetch_regs.program_counter = 49152
    /\ registers.program_counter = 49155

\* C28: an Implied or Accumulator instruction takes 2 cycles: its second
\* cycle (ThrowawayRead) makes a dummy read of the byte at PC, leaves PC one
\* byte past the opcode and executes the instruction, in Accumulator mode
\* with the value A held when the opcode was fetched as operand.
C28_ThrowawayRead ==
    (Alive /\ CurMode \in {"Implied", "Accumulator"} /\ ICycle = 2) =>
       /\ executed
       /\ itrace[2] = <<Rd(WrapU16(fetch_regs.program_counter + 1))>>
       /\ PcAdvanced(1)
       /\ CurMode = "Accumulator" => operand = fetch_regs.a
       /\ CurType # "Stack" => Completed

\* the call made in this step pulls the status register (PLP or RTI)
IsStatusPull ==
    /\ state.tag = "PullRegisterFromStack"
    /\ state.operation \in {"PLP", "RTI"}
    /\ cycles' = cycles + 1

\* C29: when PLP or RTI pulls a byte b from the stack, the stored status
\* register has bit 4 (B) clear and its bits 0-3, 6 and 7 equal those of b.
C29_PullClearsB ==
    [][IsStatusPull =>
         \E b \in ReadSet(mem, StackAddress(PopRegisters(registers))) :
            /\ bus' = <<Rd(StackAddress(PopRegisters(registers)))>>
            /\ BitAnd(registers'.status_register, 16) = 0
            /\ BitAnd(registers'.status_register, 207) = BitAnd(b, 207)]_vars

\* C29 witness: PLP pulled the byte $34 that PHP had pushed (bit 4 set) and
\* the status register is $04.
C29_Witness ==
    /\ Completed /\ cur_opcode = 40
    /\ RamOffset(StackAddress(registers)) \in DOMAIN mem
    /\ mem[RamOffset(StackAddress(registers))] = 52
    /\ registers.status_register = 4

\* the call made in this step pushes / pulls one byte
IsPush ==
    /\ state.tag \in {"PushRegisterOnStack", "WritePCHToStack", "WritePCLToStack"}
    /\ cycles' = cycles + 1

IsPull ==
    /\ state.tag \in {"PullRegisterFromStack", "PullPCLFromStack",
                      "PullPCHFromStack"}
    /\ cycles' = cycles + 1

\* C30: a push writes at $0100 + S and then decrements S modulo 256; a pull
\* increments S modulo 256 and then reads at $0100 + S; every stack access
\* is in $0100-$01FF; a pull after a push is at the address of the push,
\* restores S and (PLA) returns the byte stored there.
C30_StackDiscipline ==
    [][LET S == registers.stack_pointer
           S1 == registers'.stack_pointer
       IN  /\ IsPush =>
                /\ Len(bus') = 1 /\ bus'[1].op = "write"
                /\ bus'[1].address = 256 + S
                /\ S1 = (S + 255) % 256
                /\ mem'[RamOffset(256 + S)] = bus'[1].value
                /\ state.tag = "PushRegisterOnStack" =>
                      bus'[1].value = state.value
           /\ IsPull =>
                /\ S1 = (S + 1) % 256
                /\ bus' = <<Rd(256 + S1)>>
           /\ (IsPull /\ state.tag = "PullRegisterFromStack"
                      /\ state.operation = "PLA"
                      /\ RamOffset(256 + S1) \in DOMAIN mem) =>
                registers'.a = mem[RamOffset(256 + S1)]
           /\ IsPush =>
                /\ PopRegisters(registers').stack_pointer = S
                /\ StackAddress(PopRegisters(registers')) = bus'[1].address
      ]_vars

\* C30 witness: with S = $00, PHA pushed $80 at $0100 (S became $FF) and PLA
\* pulled it back from $0100, S = $00 again.
C30_Witness ==
    /\ Completed /\ cur_opcode = 104 /\ fetched = 2
    /\ fetch_regs.stack_pointer = 255
    /\ registers.stack_pointer = 0
    /\ 256 \in DOMAIN mem /\ mem[256] = 128
    /\ registers.a = 128

----------------------------------------------------------------------------
(* Stores and subroutine calls *)

\* The cycles of a store that read from the bus on a 6502 (opcode, operand,
\* pointer and dummy reads); the store itself follows them.
StoreReadCycles(mode) ==
    CASE mode = "ZeroPage" -> 2
      [] mode \in {"ZeroPageXIndexed", "ZeroPageYIndexed", "Absolute"} -> 3
      [] mode \in {"AbsoluteXIndexed", "AbsoluteYIndexed"} -> 4
      [] mode \in {"IndirectXIndexed", "IndirectYIndexed"} -> 5
      [] OTHER -> 0

\* The addresses read by the current instruction outside the one access of a
\* read cycle: by a second transaction of a call, or in a call after the
\* mode's read cycles.
ExtraReads ==
    UNION { { itrace[i][j].address :
                j \in { k \in 1..Len(itrace[i]) :
                          /\ itrace[i][k].op = "read"
                          /\ (k > 1 \/ i > StoreReadCycles(CurMode)) } } :
            i \in 1..ICycle }

\* the store of the current instruction is on its way to, or was just
\* written at, its effective address
StoreTarget ==
    IF state.tag = "WritingResult" THEN state.address ELSE LastAddress

\* C32: a Write instruction never reads its effective address: the only
\* reads it makes before the store are the opcode, operand, pointer and
\* dummy reads of its addressing mode, one per cycle.
C32_StoreNeverReadsTarget ==
    (Alive /\ CurType = "Write" /\ (state.tag = "WritingResult" \/ Completed))
        => StoreTarget \notin ExtraReads

\* the same statement for the stores in Absolute mode
C32_AbsoluteStore ==
    (Alive /\ CurType = "Write" /\ CurMode = "Absolute"
           /\ (state.tag = "WritingResult" \/ Completed))
        => ExtraReads = {}

----------------------------------------------------------------------------
(* The call specification: JSR, RTS and the stack instructions between      *)
(* them, each step one call of Cpu::next.                                   *)

\* Number of calls of Cpu::next explored by the call specification.
MaxCallCycles == 15

\* Number of instructions fetched by the call specification.
MaxCallInstructions == 3

\* JSR, RTS, PHA, NOP
CallOpcodes == {32, 96, 72, 234}

InitCall == InitCpu

\* one call of next(), with the bytes e1 and e2 on the bus
CallStep ==
    /\ state.tag # "Panicked"
    /\ cycles < MaxCallCycles
    /\ state.tag = "FetchOpcode" => fetched < MaxCallInstructions
    /\ \E e1 \in IF state.tag = "FetchOpcode" THEN CallOpcodes ELSE ByteSamples,
          oc \in BOOLEAN :
          /\ state.tag = "FetchOpcode" =>
                ReadValue(mem, registers.program_counter, e1) \in CallOpcodes
          /\ \E res \in {Step(state, registers, mem, e1, 0, oc)} : Commit(res)

NextCall == CallStep

SpecCall == InitCall /\ [][NextCall]_vars

\* the byte of CPU RAM at address a is known to be v
RamHolds(a, v) == RamOffset(a) \in DOMAIN mem /\ mem[RamOffset(a)] = v

\* the return address the last JSR pushed: PC - 1
ReturnAddress == WrapU16(call.pc + 65535)

\* the two bytes the last JSR pushed are still on the stack and S is where
\* that JSR left it
ReturnAddressOnStack ==
    /\ call # NoCall
    /\ fetch_regs.stack_pointer = WrapU8(call.s + 254)
    /\ RamHolds(256 + call.s, Shr(ReturnAddress, 8))
    /\ RamHolds(256 + WrapU8(call.s + 255), ReturnAddress % 256)

\* C31: JSR pushes the high byte and then the low byte of PC - 1 and sets PC
\* to its target; an RTS that finds these two bytes on the stack leaves PC at
\* the value it had when the JSR pushed it and S at its value before the JSR.
C31_CallReturn ==
    /\ (Alive /\ state.tag = "WritePCLToStack") =>
          /\ bus = <<Wr(256 + call.s, Shr(ReturnAddress, 8))>>
          /\ registers.stack_pointer = WrapU8(call.s + 255)
    /\ (Alive /\ state.tag = "SetProgramCounter") =>
          /\ bus = <<Wr(256 + WrapU8(call.s + 255), ReturnAddress % 256)>>
          /\ registers.stack_pointer = WrapU8(call.s + 254)
          /\ state.address = call.target
    /\ (Completed /\ cur_opcode = 32) =>
          /\ registers.program_counter = call.target
          /\ registers.stack_pointer = WrapU8(call.s + 254)
          /\ RamHolds(256 + call.s, Shr(ReturnAddress, 8))
          /\ RamHolds(256 + WrapU8(call.s + 255), ReturnAddress % 256)
    /\ (Completed /\ cur_opcode = 96 /\ ReturnAddressOnStack) =>
          /\ registers.program_counter = call.pc
          /\ registers.stack_pointer = call.s

\* C31 witness: a JSR made with S = $00 pushed at $0100 and $01FF, and the
\* RTS that followed it returned to the byte after the JSR with S = $00.
C31_Witness ==
    /\ Completed /\ cur_opcode = 96 /\ ReturnAddressOnStack
    /\ call.s = 0
    /\ fetch_regs.program_counter = call.target
    /\ registers.program_counter = call.pc
    /\ registers.stack_pointer = 0

----------------------------------------------------------------------------
(* Properties of the MMC3 CHR banking (checked under SpecCart) *)

\* C33: on MMC3 the CHR bank registers of the two 2 KiB pairs are
\* even-aligned after any sequence of CPU writes: registers 0 and 2 are even,
\* register 1 = register 0 + 1, register 3 = register 2 + 1, and all four are
\* below the number of 1 KiB banks of the CHR ROM.
C33_ChrPairsAligned ==
    cart.mapper = "MMC3" =>
        LET r == cart.chr.chr_banks
        IN  /\ r[0] % 2 = 0 /\ r[1] = r[0] + 1
            /\ r[2] % 2 = 0 /\ r[3] = r[2] + 1
            /\ \A i \in 0..3 : r[i] < TotalChrBanks

\* C33 witness: with 16 KiB of CHR ROM, target 0 latched and $FF written to
\* $8001, the first pair is banks 2 and 3.
C33_Witness ==
    /\ cart.mapper = "MMC3"
    /\ access.op = "write" /\ access.address = 32769 /\ access.value = 255
    /\ cart.chr.bank_select = 0
    /\ cart.chr.chr_banks[0] = 2
    /\ cart.chr.chr_banks[1] = 3

\* the window (0..7) of a pattern-table address, and the bank register the
\* CHR mode shows in it: the pairs (registers 0-3) low and the 1 KiB banks
\* (registers 4-7) high in LowBank2KB mode, the other way in HighBank2KB mode
ChrWindow(address) == address \div 1024

ChrRegisterOf(chip, w) ==
    IF chip.bank_mode = "LowBank2KB" THEN w ELSE (w + 4) % 8

\* C34: on MMC3 the offset of each of the eight 1 KiB windows equals its
\* register * $400 under the current CHR mode after every write, whatever
\* the order of the earlier writes: registers 0-3 at $0000-$0FFF and 4-7 at
\* $1000-$1FFF in LowBank2KB mode, registers 0-3 at $1000-$1FFF and 4-7 at
\* $0000-$0FFF in HighBank2KB mode; a PPU read takes its byte from there.
C34_ChrModeOffsets ==
    cart.mapper = "MMC3" =>
        /\ \A w \in 0..7 :
              cart.chr.chr_bank_offsets[w] =
                  cart.chr.chr_banks[ChrRegisterOf(cart.chr, w)] * 1024
        /\ (access.bus = "ppu" /\ access.op = "read"
              /\ access.address \in 0..8191) =>
              /\ access.kind = "Rom"
              /\ access.index =
                    cart.chr.chr_banks[ChrRegisterOf(cart.chr,
                                           ChrWindow(access.address))] * 1024
                    + (access.address % 1024)

\* C34 witness: in HighBank2KB mode with register 4 (target 2) set to bank 1,
\* a PPU read of $0000 takes the byte at $0400 of the CHR ROM.
C34_Witness ==
    /\ cart.mapper = "MMC3"
    /\ cart.chr.bank_mode = "HighBank2KB"
    /\ cart.chr.chr_banks[4] = 1
    /\ access.bus = "ppu" /\ access.op = "read" /\ access.address = 0
    /\ access.index = 1024

\* C35: the bank-select latches of the MMC3 PRG chip and CHR chip are equal
\* after any sequence of CPU writes, and a bank-data write changes no
\* register of the PRG chip for targets 0-5 and no register of the CHR chip
\* for targets 6-7.
C35_LatchesAgree ==
    [][cart.mapper = "MMC3" =>
        /\ cart.prg.bank_select = cart.chr.bank_select
        /\ cart'.prg.bank_select = cart'.chr.bank_select
        /\ IsBankData =>
              /\ cart.chr.bank_select \in 0..5 =>
                    /\ cart'.prg.prg_banks = cart.prg.prg_banks
                    /\ cart'.prg.prg_bank_offsets = cart.prg.prg_bank_offsets
              /\ cart.chr.bank_select \in 6..7 =>
                    /\ cart'.chr.chr_banks = cart.chr.chr_banks
                    /\ cart'.chr.chr_bank_offsets = cart.chr.chr_bank_offsets]_vars

\* C35 witness: both latches hold 7 after $FF was written to $8000, and the
\* bank-data write of 1 that followed set register 7 of the PRG chip.
C35_Witness ==
    /\ cart.mapper = "MMC3"
    /\ cart.prg.bank_select = 7 /\ cart.chr.bank_select = 7
    /\ access.op = "write" /\ access.address = 32769 /\ access.value = 1
    /\ cart.prg.prg_banks[3] = 1
    /\ cart.chr.chr_banks = [i \in 0..7 |-> i]

----------------------------------------------------------------------------
(* The PPU-bus specification: reads and writes of the MMC3 PPU bus          *)
(* (pattern tables, name tables, palette addresses), and the CPU writes     *)
(* that change the CHR banking and the mirroring between them.              *)

\* Number of name-table cells written.
MaxVramCells == 1

\* MMC3 images with 16 KiB of PRG ROM, 8 KiB of CHR ROM and horizontal,
\* vertical and four-screen mirroring
PpuBusImages ==
    { Image(TRUE, DeclaredSize(1, 1), TRUE, 1, 1, f6, 0) : f6 \in {64, 65, 72} }

\* $2000 $2400 $2800 $2C00 $3000 $3EFF
NameTableAddresses == {8192, 9216, 10240, 11264, 12288, 16127}

\* $3F00 $3FFF
PaletteAddresses == {16128, 16383}

\* $0000 $1FFF
PatternAddresses == {0, 8191}

PpuBusAddresses == PatternAddresses \cup NameTableAddresses \cup PaletteAddresses

VramValues == {1, 255}

\* $8000 $8001 $A000 $C000 $FFFF
RegisterAddresses == {32768, 32769, 40960, 49152, 65535}

\* 1: target 1, bank 1, horizontal; 130: target 2 in CHR mode high, vertical
RegisterValues == {1, 130}

InitPpuBus ==
    /\ CpuIdle
    /\ image \in PpuBusImages
    /\ loaded = from_file(image, FALSE)
    /\ cart = Cartridge(loaded)
    /\ access = NoAccess
    /\ shadow = NoShadow
    /\ writes = 0
    /\ bank_data_7 = None

\* a PPU write: PpuCartridgeAddressBus::write_byte
PpuWrite ==
    /\ CartRunning
    /\ \E a \in PpuBusAddresses, v \in VramValues :
          \E res \in {MMC3Chr_write_byte(cart.chr, a, v)} :
             /\ Cardinality(DOMAIN res.chip.ppu_vram) <= MaxVramCells
             /\ cart' = [cart EXCEPT !.chr = res.chip]
             /\ access' = Access("ppu", "write", a, v,
                                 BusRead(res.kind, None, None))
    /\ UNCHANGED <<shadow, writes, bank_data_7, cpuVars, loadVars, hostVars>>

\* a PPU read: PpuCartridgeAddressBus::read_byte
PpuBusRead == PpuReadOf(PpuBusAddresses)

\* a CPU write to a register address
RegisterWrite == CpuWriteOf(RegisterAddresses, RegisterValues)

NextPpuBus == PpuWrite \/ PpuBusRead \/ RegisterWrite

SpecPpuBus == InitPpuBus /\ [][NextPpuBus]_vars

\* the last operation was a PPU-bus operation op at a name-table address
NameTableAccess(op) ==
    /\ access.bus = "ppu" /\ access.op = op
    /\ access.address \in 8192..16127

\* the name-table offset of address a under the active mirroring mode
Mirrored(a) == get_mirrored_address(cart.chr.mirroring_mode, a)

\* C36: on the MMC3 PPU bus write_byte(a, v) with a in $2000-$3EFF followed
\* by read_byte(a) returns v, and so does a read of every address the active
\* mirroring mode maps to the same name-table offset; the offset is inside
\* the 4 KiB of the cartridge's name-table memory.
C36_NameTableRoundTrip ==
    /\ NameTableAccess("write") =>
          /\ access.kind = "Write"
          /\ \A a \in NameTableAddresses :
                Mirrored(a) = Mirrored(access.address) =>
                    MMC3Chr_read_byte(cart.chr, a) =
                        BusRead("Vram", Mirrored(a), access.value)
          /\ MMC3Chr_read_byte(cart.chr, access.address).value = access.value
    /\ NameTableAccess("read") =>
          /\ access.kind = "Vram"
          /\ access.index = Mirrored(access.address)
          /\ access.index < 4096
          /\ access.value = VramRead(cart.chr.ppu_vram, access.index)

\* C36 witness: with vertical mirroring a read of $3000 returns the $FF held
\* at offset 0, and $2800 maps to that offset too.
C36_Witness ==
    /\ NameTableAccess("read")
    /\ access.address = 12288
    /\ cart.chr.mirroring_mode = "Vertical"
    /\ access.index = 0 /\ access.value = 255
    /\ Mirrored(10240) = 0

\* C37: a read or write of an address in $3F00-$3FFF through the MMC3 PPU bus
\* ends in the abort state, a read returns no value, and neither changes the
\* name-table memory or the banking.
C37_PaletteNotServed ==
    [][(access'.bus = "ppu" /\ access'.address \in 16128..16383) =>
          /\ access'.kind = "Abort"
          /\ access'.op = "read" => access'.value = None
          /\ cart' = cart]_vars

\* C37 witness: a write to $3FFF aborted, and the byte written to the name
\* tables before it is still there.
C37_Witness ==
    /\ access.bus = "ppu" /\ access.op = "write" /\ access.address = 16383
    /\ access.kind = "Abort"
    /\ cart.chr.ppu_vram # ZeroedVram

\* the step is a PPU-bus write to a pattern-table address, or a CPU write to
\* $C000-$FFFF
IsNonRegisterWrite ==
    \/ /\ access'.bus = "ppu" /\ access'.op = "write"
       /\ access'.address \in 0..8191
    \/ /\ IsCpuWrite /\ access'.address \in 49152..65535

\* C38: on MMC3 a PPU-bus write to $0000-$1FFF and a CPU write to
\* $C000-$FFFF leave the bank registers, bank offsets, mode bits, bank-select
\* latches and mirroring mode unchanged, and every read of ROM returns the
\* same byte after it as before.
C38_NonRegisterWrites ==
    [][IsNonRegisterWrite =>
          /\ cart'.prg = cart.prg
          /\ cart'.chr = cart.chr
          /\ \A a \in CpuReadAddresses :
                CartCpuRead(cart', a) = CartCpuRead(cart, a)
          /\ \A a \in PpuReadAddresses :
                CartPpuRead(cart', a) = CartPpuRead(cart, a)]_vars

\* C38 witness: a PPU write to $1FFF made in HighBank2KB mode with target 2
\* latched left the mode and the latch as they were.
C38_Witness ==
    /\ access.bus = "ppu" /\ access.op = "write" /\ access.address = 8191
    /\ access.kind = "Write"
    /\ cart.chr.bank_mode = "HighBank2KB"
    /\ cart.chr.bank_select = 2
    /\ cart.chr.ppu_vram = ZeroedVram

----------------------------------------------------------------------------
(* The ROM from_file hands to the mapper (checked under SpecLoad) *)

\* the image without the bytes after the declared end of the CHR ROM
Trimmed(img) ==
    [img EXCEPT !.len = DeclaredSize(img.prg_units, img.chr_units)]

\* C40: from_file hands the mapper the declared ROM: PRG is the 16 KiB *
\* PRG-units bytes from offset 16, CHR the 8 KiB * CHR-units bytes after it,
\* CHR is absent exactly when the header declares 0 CHR units, and the bytes
\* after the declared end of CHR make no difference.
C40_DeclaredRom ==
    loaded.kind = "Ok" =>
        LET prg_rom_end == 16 + 16384 * image.prg_units
        IN  /\ loaded.prg_rom = [kind |-> "Bytes", from |-> 16, to |-> prg_rom_end]
            /\ loaded.chr_rom.kind = "None" <=> image.chr_units = 0
            /\ image.chr_units > 0 =>
                  loaded.chr_rom = [kind |-> "Bytes", from |-> prg_rom_end,
                                    to |-> prg_rom_end + 8192 * image.chr_units]
            /\ \E oc \in BOOLEAN : loaded = from_file(Trimmed(image), oc)

\* C40 witness: an image with one byte after its 16 KiB of PRG and 8 KiB of
\* CHR was loaded, and the CHR handed over ends at the declared end.
C40_Witness ==
    /\ loaded.kind = "Ok"
    /\ image.prg_units = 1 /\ image.chr_units = 1
    /\ image.len = DeclaredSize(1, 1) + 1
    /\ loaded.chr_rom.to = 24592

----------------------------------------------------------------------------
(* The host specification: the loop of sdl2_app::run.  Each iteration calls *)
(* cpu.next() and, when the cycle completed a frame, presents the           *)
(* framebuffer and handles the SDL events that are pending.                 *)

\* Number of iterations of the host loop explored.
MaxHostCycles == 3

\* Number of SDL events that arrive.
MaxEvents == 2

\* Quit, KeyDown(Escape), KeyDown(Z), KeyUp(Z), KeyDown(D) and an event the
\* loop ignores
HostEvents == {"Quit", "Escape", "KeyDownZ", "KeyUpZ", "KeyDownD", "Other"}

\* what the dump of the D key meets: both files written, File::create
\* failing (unwrap panics), writeln! failing (`?` returns the error)
DumpOutcomes == {"ok", "create fails", "write fails"}

\* NOP and LDA #
HostOpcodes == {234, 169}

\* the body of `for event in event_pump.poll_iter()`, for the events of the
\* queue in order
RECURSIVE HandleEvents(_, _)
HandleEvents(h, io) ==
    IF h.queue = << >> THEN h
    ELSE LET event == Head(h.queue)
             h1 == [h EXCEPT !.queue = Tail(@), !.handled = @ + 1]
         IN  CASE event \in {"Quit", "Escape"} -> [h1 EXCEPT !.ended = "quit"]
               [] event = "KeyDownZ" ->
                     HandleEvents([h1 EXCEPT !.buttons = @ \cup {"A"}], io)
               [] event = "KeyUpZ" ->
                     HandleEvents([h1 EXCEPT !.buttons = @ \ {"A"}], io)
               [] event = "KeyDownD" ->
                     IF io = "ok" THEN HandleEvents(h1, io)
                     ELSE IF io = "create fails" THEN [h1 EXCEPT !.ended = "panic"]
                     ELSE [h1 EXCEPT !.ended = "error"]
               [] OTHER -> HandleEvents(h1, io)

\* the host after one iteration: next_state is the CpuState cpu.next() left,
\* fc the value of cpu.is_frame_complete_cycle(), sdl_ok whether
\* texture.update and canvas.copy succeeded
Iteration(h, next_state, fc, sdl_ok, io) ==
    LET h1 == [h EXCEPT !.iterations = @ + 1, !.frame_complete = FALSE,
                        !.presented = FALSE, !.handled = 0]
    IN  IF next_state = Panicked THEN [h1 EXCEPT !.ended = "panic"]
        ELSE IF ~fc THEN h1
        ELSE IF ~sdl_ok THEN [h1 EXCEPT !.frame_complete = TRUE,
                                        !.ended = "panic"]
        ELSE HandleEvents([h1 EXCEPT !.frame_complete = TRUE,
                                     !.presented = TRUE], io)

InitHost == InitCpu

\* one iteration of 'main: loop
HostIteration ==
    /\ host.ended = "no"
    /\ host.iterations < MaxHostCycles
    /\ \E e1 \in IF state.tag = "FetchOpcode" THEN HostOpcodes ELSE ByteSamples,
          oc \in BOOLEAN, fc \in BOOLEAN, sdl_ok \in BOOLEAN,
          io \in DumpOutcomes :
          \E res \in {Step(state, registers, mem, e1, 0, oc)} :
             /\ CommitCpu(res)
             /\ host' = Iteration(host, res.state, fc, sdl_ok, io)

\* an event enters the SDL event queue
EventArrives ==
    /\ host.ended = "no"
    /\ host.arrived < MaxEvents
    /\ \E event \in HostEvents :
          host' = [host EXCEPT !.queue = Append(@, event), !.arrived = @ + 1]
    /\ UNCHANGED <<cpuVars, loadVars, cartVars>>

NextHost == HostIteration \/ EventArrives

SpecHost == InitHost /\ [][NextHost]_vars

\* the step is an iteration of the host loop
IsIteration == host'.iterations = host.iterations + 1

\* the first Quit or Escape event of the queue is at position i
FirstQuitAt(i) ==
    /\ i \in 1..Len(host.queue)
    /\ host.queue[i] \in {"Quit", "Escape"}
    /\ \A j \in 1..(i - 1) : host.queue[j] \notin {"Quit", "Escape"}

\* the framebuffer is presented and events are handled only in iterations
\* where is_frame_complete_cycle() holds, and the buttons change only there
C39_FrameBoundary ==
    [][/\ (host'.presented \/ host'.handled > 0) => host'.frame_complete
       /\ (host'.buttons # host.buttons \/ Len(host'.queue) < Len(host.queue))
             => (IsIteration /\ host'.frame_complete)]_vars

\* once the loop has ended cpu.next() is not called again
C39_NoStepAfterEnd ==
    [][host.ended # "no" => (cycles' = cycles /\ state' = state)]_vars

\* C39: the host loop presents the framebuffer and handles events only in
\* iterations where is_frame_complete_cycle() holds, so the buttons change
\* only at frame boundaries; an iteration that completes a frame and polls a
\* Quit or Escape event ends the loop there, cpu.next() is not called after
\* it, and the loop ends in no other way.
C39_HostLoop ==
    [][/\ (host'.presented \/ host'.handled > 0) => host'.frame_complete
       /\ (host'.buttons # host.buttons \/ Len(host'.queue) < Len(host.queue))
             => (IsIteration /\ host'.frame_complete)
       /\ host.ended # "no" => (cycles' = cycles /\ state' = state)
       /\ \A i \in 1..MaxEvents :
             (IsIteration /\ host'.presented /\ FirstQuitAt(i)) =>
                 (host'.ended = "quit" /\ host'.handled = i)
       /\ host'.ended \in {"no", "quit"}]_vars

====
